---- MODULE Spec2Model ----
(***************************************************************************)
(* A model of influxdb-relay: the HTTP ingress handler (relay/http.go,     *)
(* HTTP.ServeHTTP) with its fan-out to the backends and its response       *)
(* selection, and the per-backend retry buffer (relay/retry.go).           *)
(*                                                                         *)
(* Several specifications share the module and its variables.  SpecHTTP    *)
(* runs one request through ServeHTTP, with every backend's post as a      *)
(* nondeterministic outcome (SpecHTTPFair adds the scheduling of the       *)
(* handler, SpecFanOut the request's further query parameters and          *)
(* credentials).  SpecList runs a bufferList under add and pop in any      *)
(* order.  SpecRetry runs one retryBuffer: callers of Post, the drainer    *)
(* goroutine run, and the bufferList they share (SpecRelease adds the      *)
(* release of the submitters' outgoing buffers).  SpecBackoff runs the     *)
(* drainer's retry loop alone under any max-interval.  SpecNew builds a    *)
(* Service from a configuration, and SpecService runs Service.Run and      *)
(* Service.Stop with the Run and Stop of the ingresses.                    *)
(***************************************************************************)
EXTENDS Integers, Sequences, FiniteSets, TLC

(***************************************************************************)
(* Bounds of the model.                                                    *)
(***************************************************************************)
\* number of configured backends of the HTTP ingress (len(h.backends))
NBackends == 2

Backends == 1..NBackends

\* number of concurrent callers of retryBuffer.Post, one Post each
NSubmit == 2

\* number of bodies handed to bufferList.add in all
NBodies == 3

\* the retry buffer's capacity in bytes (bufferList.maxSize)
maxSize == 4

\* the largest batch add coalesces, in bytes (bufferList.maxBatch)
maxBatch == 2

\* the longest body a caller submits, in bytes
MaxLen == 3

\* retryBuffer.maxInterval, in milliseconds
maxInterval == 1500

\* the failed attempts of one batch that are counted exactly
MaxFails == 3

\* the most HTTP ingresses a configuration names (len(config.HTTPRelays))
NHTTP == 2

\* the most UDP ingresses a configuration names (len(config.UDPRelays))
NUDP == 1

\* retry.go 11-12
retryInitial == 500
retryMultiplier == 2

(***************************************************************************)
(* The request, as far as ServeHTTP looks at it.                           *)
(***************************************************************************)
Paths == {"/ping", "/write", "/query"}
Methods == {"GET", "HEAD", "POST", "OPTIONS", "PUT"}
\* r.URL.Query().Get("db"): "" when the parameter is absent or empty
DBs == {"", "mydb"}
\* r.Header.Get("Content-Encoding")
Encodings == {"", "gzip"}
\* what the request body's bytes are
\*   plain_points   line protocol, not compressed
\*   plain_garbage  not compressed, not line protocol
\*   gz_points      a gzip stream of line protocol
\*   gz_garbage     a gzip stream of bytes that are not line protocol
\*   gz_truncated   a gzip header followed by a corrupt or truncated stream
\*   io_error       the connection fails while the body is read
BodyKinds == {"plain_points", "plain_garbage", "gz_points", "gz_garbage",
              "gz_truncated", "io_error"}

\* the parameters of the query besides db, as pairs in the request's order
Rests == { <<>>, << <<"rp", "week">>, <<"precision", "s">> >> }
\* r.Header.Get("Authorization")
Auths == {"", "Basic dXNlcg=="}
\* h.rp, the ingress's default retention policy; "" is none
RPs == {"", "autogen"}

\* requests with db as their only parameter and no credentials
Requests == [path : Paths, method : Methods, db : DBs, enc : Encodings,
             body : BodyKinds, rest : {<<>>}, auth : {""}]

\* requests with any of the parameters and credentials
FullRequests == [path : Paths, method : Methods, db : DBs, enc : Encodings,
                 body : BodyKinds, rest : Rests, auth : Auths]

\* r.URL.Query(): the parameters of the request, in the request's order
Query(r) == (IF r.db = "" THEN <<>> ELSE << <<"db", r.db>> >>) \o r.rest

\* url.Values.Get: the value of parameter key, "" when it is absent
QueryGet(q, key) ==
    IF \E i \in 1..Len(q) : q[i][1] = key
    THEN q[CHOOSE i \in 1..Len(q) : q[i][1] = key][2]
    ELSE ""

\* http.go 255-257: the parameters after the default retention policy is set
WithRP(q, hrp) ==
    IF QueryGet(q, "rp") = "" /\ hrp # "" THEN Append(q, <<"rp", hrp>>) ELSE q

\* the parameter names in the order sort.Strings puts them
KeyOrder == <<"db", "precision", "rp">>

\* Encode leaving the parameters in the request's order
Encode_RequestOrder(q) == q

\* url.Values.Encode: the parameters sorted by name
Encode(q) ==
    LET present == SelectSeq(KeyOrder, LAMBDA k : \E i \in 1..Len(q) : q[i][1] = k)
    IN [j \in 1..Len(present) |-> <<present[j], QueryGet(q, present[j])>>]

\* http.go 278-297: the points of the body, decompressed and parsed, written
\* out again in the precision of the request
outBytes(r) == <<"points", QueryGet(Query(r), "precision")>>

\* the arguments of b.post before ServeHTTP has computed them
NoArgs == [buf |-> <<>>, query |-> <<>>, auth |-> ""]

(***************************************************************************)
(* Responses.  A response written to the client is its status code, its    *)
(* body and the headers the handler sets (Content-Length, which is always  *)
(* the body's length, is left out).  Bodies are tuples of strings.         *)
(***************************************************************************)
NoBody == <<>>

\* jsonError: Content-Type application/json, body {"error":<message>}
jsonError(code, message) ==
    [code |-> code, body |-> <<"error", message>>,
     hdrs |-> {<<"Content-Type", "application/json">>}]

\* w.WriteHeader(code) alone, after the header writes in hdrs
HeaderOnly(code, hdrs) == [code |-> code, body |-> NoBody, hdrs |-> hdrs]

\* the status codes a backend answers with; 301 stands for a status that is
\* neither 2xx, 4xx nor 5xx (the poster returns it as a record like any other)
BackendStatuses == {204, 301, 400, 500, 503}

\* the body backend b answers with
BackendBody(b) == <<"backend", ToString(b)>>

\* the header sets a backend answers with: none of the content headers, both
\* of them, or a header by the name simplePoster.post looks up
BackendHeaders ==
    { {},
      {<<"Content-Type", "application/json">>, <<"Content-Encoding", "gzip">>},
      {<<"Conent-Type", "text/plain">>} }

\* http.Header.Get: the value of header key in hdrs, "" when it is absent
Get(hdrs, key) ==
    IF \E h \in hdrs : h[1] = key
    THEN (CHOOSE h \in hdrs : h[1] = key)[2]
    ELSE ""

\* responseData, as simplePoster.post builds it from backend b's answer with
\* status and headers hdrs (from and sent record where it came from)
responseData(b, status, hdrs) ==
    [StatusCode |-> status, Body |-> BackendBody(b),
     ContentType |-> Get(hdrs, "Conent-Type"),
     ContentEncoding |-> Get(hdrs, "Conent-Encoding"),
     from |-> b, sent |-> hdrs]

\* a record that is no response of a backend, told apart by its StatusCode
NoResponse(code) ==
    [StatusCode |-> code, Body |-> NoBody, ContentType |-> "",
     ContentEncoding |-> "", from |-> 0, sent |-> {}]

\* b.post returns (nil, err): a transport error, or ErrBufferFull
PostError == NoResponse(0)

\* no outcome yet: the post has not returned
Pending == NoResponse(-1)

\* no response held (errResponse == nil)
Nil == NoResponse(-2)

Outcomes(b) ==
    {PostError} \cup
    {responseData(b, s, h) : s \in BackendStatuses, h \in BackendHeaders}

\* resp.StatusCode / 100
StatusClass(rd) == rd.StatusCode \div 100

\* responseData.Write: Content-Type and Content-Encoding when the record has
\* them, then the record's status and body
Write(rd) ==
    [code |-> rd.StatusCode, body |-> rd.Body,
     hdrs |-> (IF rd.ContentType # ""
               THEN {<<"Content-Type", rd.ContentType>>} ELSE {})
              \cup
              (IF rd.ContentEncoding # ""
               THEN {<<"Content-Encoding", rd.ContentEncoding>>} ELSE {})]

VARIABLES
    req,          \* the request being served
    hpc,          \* ServeHTTP: "start", "collect", "returned", "panicked"
    wrote,        \* the responses ServeHTTP wrote to its ResponseWriter, in order
    client,       \* the responses the client received, set when ServeHTTP ends
    dpc,          \* per backend, the dispatcher goroutine: "idle", "post",
                  \*   "publish", "done", "exit"
    outcome,      \* per backend, what b.post returned (Pending before it returns)
    responses,    \* the results channel's content
    closed,       \* the results channel is closed
    wg,           \* the fan-out WaitGroup's counter
    spc,          \* the supervisor goroutine: "idle", "wait", "put", "exit"
    errResponse,  \* ServeHTTP's errResponse
    seen,         \* the responses ServeHTTP received from the channel, in order
    bodyBuf,      \* the input buffer: "unused", "taken", "put"
    outBuf,       \* the outgoing buffer: "unused", "taken", "put"
    rp,           \* h.rp
    args,         \* ServeHTTP's outBytes, query and authHeader
    posted,       \* per backend, the arguments of the calls of its post
    released      \* per submitter of the retry buffer, the outgoing buffer of
                  \*   its request was put back to the pool

httpVars == <<req, hpc, wrote, client, dpc, outcome, responses, closed, wg, spc,
              errResponse, seen, bodyBuf, outBuf, rp, args, posted, released>>

(***************************************************************************)
(* The retry buffer.  A body is named by the submitter that posts it, and  *)
(* a batch by the submitter whose body created it (newBatch).              *)
(***************************************************************************)
Bodies == 1..NBodies
Submitters == 1..NSubmit
Queries == {"db=foo", "db=bar"}
Lens == 0..MaxLen

\* what the backend does with one POST: a status, or 0 for a transport error
RetryStatuses == {0, 204, 400, 500}

\* Accepted taking every response, a 5xx too, for a success
Accepted_Any5xx(status) == status # 0

\* Accepted taking a 4xx for a failure as well
Accepted_Not4xx(status) == status # 0 /\ status \div 100 \notin {4, 5}

\* err == nil && bresp.StatusCode/100 != 5  (retry.go 53, 82)
Accepted(status) == status # 0 /\ status \div 100 # 5

NoBatch == [id |-> 0, query |-> "", bufs |-> <<>>, size |-> 0]

\* results of Post
NoResult == [err |-> "", StatusCode |-> -1]
ErrBufferFull == [err |-> "retry buffer full", StatusCode |-> 0]
Response(status) == [err |-> "", StatusCode |-> status]
\* batch.resp before the drainer stores it
NilResp == [err |-> "", StatusCode |-> -2]

VARIABLES
    buffering,    \* retryBuffer.buffering
    list,         \* bufferList: the batches linked from head, in order
    lsize,        \* bufferList.size
    sub,          \* per body, its length and the query it is posted with
    ppc,          \* per submitter, where it is in Post: "idle", "direct",
                  \*   "store", "add", "ret", "wait", "done", "panicked"
    added,        \* per submitter, the batch add put its body in (0: none)
    curHead,      \* per submitter, add's cur is &l.head
    handle,       \* per submitter, the batch add returned (0: nil)
    result,       \* per submitter, what Post returned
    rpc,          \* the drainer run: "pop", "post", "sleep", "clear", "release"
    batch,        \* run's batch
    interval,     \* run's interval
    bresp,        \* per batch, batch.resp
    wgc,          \* per batch, the counter of batch.wg
    nfail,        \* the failed attempts run has made for its batch, counted
                  \*   up to MaxFails
    loaded,       \* per submitter, the value of buffering Post loaded (-1: none)
    direct        \* per submitter, Post's resp and err of its direct post: the
                  \*   status, 0 for an error (-1: no direct post made)

retryVars == <<buffering, list, lsize, sub, ppc, added, curHead, handle, result,
               rpc, batch, interval, bresp, wgc, nfail, loaded, direct>>

(***************************************************************************)
(* The service: New builds the ingresses of a configuration, Run runs      *)
(* them and Stop stops them.  Of the UDP ingress only what Service uses is *)
(* modelled: its Name, and that its Run executes and returns.              *)
(***************************************************************************)
\* HTTPConfig.Name; "" is an ingress without a name
Names == {"", "r"}

\* HTTPConfig.Addr, the bind address
Addrs == {":" \o ToString(i) : i \in 1..NHTTP}

\* HTTPConfig.SSLCombinedPem; "" is no certificate
Certs == {"", "pem"}

\* HTTPOutputConfig.Timeout of the ingress's output: "" is the default, "bad"
\* a string time.ParseDuration rejects
Timeouts == {"", "bad"}

HTTPConfigs == [Name : Names, Addr : Addrs, SSLCombinedPem : Certs,
                Timeout : Timeouts]

\* a UDP ingress, by the name its Name() returns
UDPConfigs == [Name : {"r", "u"}]

\* the sequences over S of length n at most
SeqsUpTo(S, n) == UNION {[1..k -> S] : k \in 0..n}

\* Config: the HTTP and the UDP ingress configurations, in file order
Configs == [HTTPRelays : SeqsUpTo(HTTPConfigs, NHTTP),
            UDPRelays : SeqsUpTo(UDPConfigs, NUDP)]

\* no configuration: the service is not part of the run
NoConfig == [HTTPRelays |-> <<>>, UDPRelays |-> <<>>]

\* the *Service New returns: err is "" and relays the map's values, or err
\* is the error and there is no service
NoService == [err |-> "not built", relays |-> {}]

VARIABLES
    config,       \* the Config handed to New
    service,      \* what New returned (NoService before New is called)
    runpc,        \* Service.Run: "idle", "wait", "returned"
    swg,          \* Service.Run's WaitGroup counter
    gpc,          \* per ingress, Run's goroutine: "none", "run", "exit"
    irun,         \* per ingress, its Run: "idle", "serve", "load", "returned"
    iret,         \* per ingress, what its Run returned: "none", "nil", "err"
    closing,      \* per ingress, HTTP.closing
    lis,          \* per ingress, HTTP.l: "nil", "open", "closed"
    stoppc,       \* Service.Stop: "idle", "loop", "returned", "panicked"
    spos,         \* per ingress, the statements of its Stop already executed
    stopServing   \* per ingress, its Stop began while its Run was serving

svcVars == <<config, service, runpc, swg, gpc, irun, iret, closing, lis, stoppc,
             spos, stopServing>>

(***************************************************************************)
(* The drainer's backoff under any configured max-interval.                *)
(***************************************************************************)
\* HTTPOutputConfig.MaxDelayInterval parsed, in milliseconds: below, at and
\* above the initial interval, zero and negative
MaxIntervals == {-1000, 0, 300, 500, 700, 1000, maxInterval, 4000}

VARIABLES
    max,          \* retryBuffer.maxInterval as newRetryBuffer received it
    pfail         \* the failed attempts of the batch popped before this one

backoffVars == <<max, pfail>>

vars == <<httpVars, retryVars, svcVars, backoffVars>>

(***************************************************************************)
(* Request validation, http.go 222-252: the response of the first check    *)
(* that fails, or Nil when the request passes all four.                    *)
(***************************************************************************)
NoReply == [code |-> 0, body |-> NoBody, hdrs |-> {}]

\* Validate with the method checked before the path
Validate_MethodFirst(r) ==
    IF r.path = "/ping" /\ r.method \in {"GET", "HEAD"}
    THEN HeaderOnly(204, {<<"X-InfluxDB-Version", "relay">>})
    ELSE IF r.method # "POST"
    THEN IF r.method = "OPTIONS"
         THEN HeaderOnly(204, {<<"Allow", "POST">>})
         ELSE [jsonError(405, "invalid write method") EXCEPT
                  !.hdrs = @ \cup {<<"Allow", "POST">>}]
    ELSE IF r.path # "/write"
    THEN jsonError(404, "invalid write endpoint")
    ELSE IF r.db = ""
    THEN jsonError(400, "missing parameter: db")
    ELSE NoReply

Validate(r) ==
    IF r.path = "/ping" /\ r.method \in {"GET", "HEAD"}
    THEN HeaderOnly(204, {<<"X-InfluxDB-Version", "relay">>})
    ELSE IF r.path # "/write"
    THEN jsonError(404, "invalid write endpoint")
    ELSE IF r.method # "POST"
    THEN IF r.method = "OPTIONS"
         THEN HeaderOnly(204, {<<"Allow", "POST">>})
         ELSE [jsonError(405, "invalid write method") EXCEPT
                  !.hdrs = @ \cup {<<"Allow", "POST">>}]
    ELSE IF r.db = ""
    THEN jsonError(400, "missing parameter: db")
    ELSE NoReply

\* gzip.NewReader(r.Body) returns an error: the body does not start with a
\* gzip header, or cannot be read
GzipNewReaderFails(r) == r.body \in {"plain_points", "plain_garbage", "io_error"}

\* bodyBuf.ReadFrom(body) returns an error
ReadFails(r) ==
    \/ r.body = "io_error"
    \/ r.enc = "gzip" /\ r.body = "gz_truncated"

\* models.ParsePointsWithPrecision returns an error on what was read
ParseFails(r) ==
    IF r.enc = "gzip" THEN r.body # "gz_points" ELSE r.body # "plain_points"

InitHTTPVars ==
    /\ hpc = "start"
    /\ wrote = <<>>
    /\ client = <<>>
    /\ dpc = [b \in Backends |-> "idle"]
    /\ outcome = [b \in Backends |-> Pending]
    /\ responses = <<>>
    /\ closed = FALSE
    /\ wg = 0
    /\ spc = "idle"
    /\ errResponse = Nil
    /\ seen = <<>>
    /\ bodyBuf = "unused"
    /\ outBuf = "unused"
    /\ args = NoArgs
    /\ posted = [b \in Backends |-> <<>>]
    /\ released = [p \in 1..NBodies |-> FALSE]

\* newRetryBuffer, newBufferList: an empty list, buffering clear, run started
InitRetryVars ==
    /\ buffering = 0
    /\ list = <<>>
    /\ lsize = 0
    /\ sub = [p \in Bodies |-> [len |-> 0, query |-> ""]]
    /\ ppc = [p \in Bodies |-> "idle"]
    /\ added = [p \in Bodies |-> 0]
    /\ curHead = [p \in Bodies |-> FALSE]
    /\ handle = [p \in Bodies |-> 0]
    /\ result = [p \in Bodies |-> NoResult]
    /\ rpc = "pop"
    /\ batch = NoBatch
    /\ interval = retryInitial
    /\ bresp = [i \in Bodies |-> NilResp]
    /\ wgc = [i \in Bodies |-> 0]
    /\ nfail = 0
    /\ loaded = [p \in Bodies |-> -1]
    /\ direct = [p \in Bodies |-> -1]

\* the per-ingress state of the ingresses in relays, none of them started
InitRelays(relays) ==
    /\ runpc = "idle"
    /\ swg = 0
    /\ gpc = [r \in relays |-> "none"]
    /\ irun = [r \in relays |-> "idle"]
    /\ iret = [r \in relays |-> "none"]
    /\ closing = [r \in relays |-> 0]
    /\ lis = [r \in relays |-> "nil"]
    /\ stoppc = "idle"
    /\ spos = [r \in relays |-> 0]
    /\ stopServing = [r \in relays |-> FALSE]

\* no service
InitSvcVars ==
    /\ config = NoConfig
    /\ service = NoService
    /\ InitRelays({})

\* the retry buffer is built with the bound maxInterval
InitBackoffVars ==
    /\ max = maxInterval
    /\ pfail = 0

\* one request arrives at the HTTP ingress
InitHTTP ==
    /\ req \in Requests
    /\ rp = ""
    /\ InitHTTPVars
    /\ InitRetryVars
    /\ InitSvcVars
    /\ InitBackoffVars

\* ServeHTTP returns having written reply
Return(reply) ==
    /\ wrote' = Append(wrote, reply)
    /\ client' = Append(wrote, reply)
    /\ hpc' = "returned"

fanoutVars == <<dpc, outcome, responses, closed, wg, spc, errResponse, seen, args,
                posted>>

\* http.go 222-252: one of the four checks answers the request
Invalid ==
    /\ hpc = "start"
    /\ Validate(req) # NoReply
    /\ Return(Validate(req))
    /\ UNCHANGED <<backoffVars, svcVars, retryVars, req, rp, released, fanoutVars, bodyBuf, outBuf>>

\* http.go 261-271: Content-Encoding is gzip and gzip.NewReader fails.  The
\* handler writes the 400 and, having no return, goes on with b == nil: it
\* takes bodyBuf from the pool and bodyBuf.ReadFrom calls Read on the nil
\* *gzip.Reader, which panics.  net/http recovers the panic and closes the
\* connection without flushing the buffered response.
GzipError ==
    /\ hpc = "start"
    /\ Validate(req) = NoReply
    /\ req.enc = "gzip"
    /\ GzipNewReaderFails(req)
    /\ wrote' = Append(wrote, jsonError(400, "unable to decode gzip body"))
    /\ bodyBuf' = "taken"
    /\ hpc' = "panicked"
    /\ client' = <<>>
    /\ UNCHANGED <<backoffVars, svcVars, retryVars, req, rp, released, fanoutVars, outBuf>>

\* the request reaches bodyBuf.ReadFrom with a usable body reader
ReachesRead ==
    /\ hpc = "start"
    /\ Validate(req) = NoReply
    /\ ~(req.enc = "gzip" /\ GzipNewReaderFails(req))

\* http.go 270-276: reading the body fails
ReadError ==
    /\ ReachesRead
    /\ ReadFails(req)
    /\ bodyBuf' = "put"
    /\ Return(jsonError(500, "problem reading request body"))
    /\ UNCHANGED <<backoffVars, svcVars, retryVars, req, rp, released, fanoutVars, outBuf>>

\* http.go 278-287: the body does not parse as points
ParseError ==
    /\ ReachesRead
    /\ ~ReadFails(req)
    /\ ParseFails(req)
    /\ bodyBuf' = "put"
    /\ Return(jsonError(400, "unable to parse points"))
    /\ UNCHANGED <<backoffVars, svcVars, retryVars, req, rp, released, fanoutVars, outBuf>>

\* http.go 289-353: the points are written to outBuf (bytes.Buffer writes
\* return no error, so the branch at 304-308 is never taken), bodyBuf goes
\* back to the pool, and one dispatcher per backend and the supervisor are
\* started
FanOut ==
    /\ ReachesRead
    /\ ~ReadFails(req)
    /\ ~ParseFails(req)
    /\ bodyBuf' = "put"
    /\ outBuf' = "taken"
    /\ args' = [buf |-> outBytes(req), query |-> Encode(WithRP(Query(req), rp)),
                auth |-> req.auth]
    /\ wg' = NBackends
    /\ dpc' = [b \in Backends |-> "post"]
    /\ spc' = "wait"
    /\ hpc' = "collect"
    /\ UNCHANGED <<backoffVars, svcVars, retryVars, req, rp, released, posted, wrote, client, outcome, responses, closed, errResponse, seen>>

\* http.go 337: b.post returns, with a response record or an error
DispatchPost(b) ==
    /\ dpc[b] = "post"
    /\ posted' = [posted EXCEPT ![b] = Append(@, args)]
    /\ \E o \in Outcomes(b) : outcome' = [outcome EXCEPT ![b] = o]
    /\ dpc' = [dpc EXCEPT ![b] = "publish"]
    /\ UNCHANGED <<backoffVars, svcVars, retryVars, req, rp, released, args, hpc, wrote, client, responses, closed, wg, spc,
                   errResponse, seen, bodyBuf, outBuf>>

\* http.go 338-345: an error is logged; a response is sent on the channel,
\* which blocks while the channel holds NBackends responses
DispatchPublish(b) ==
    /\ dpc[b] = "publish"
    /\ IF outcome[b] = PostError
       THEN UNCHANGED responses
       ELSE /\ Len(responses) < NBackends
            /\ ~closed
            /\ responses' = Append(responses, outcome[b])
    /\ dpc' = [dpc EXCEPT ![b] = "done"]
    /\ UNCHANGED <<backoffVars, svcVars, retryVars, req, rp, released, args, posted, hpc, wrote, client, outcome, closed, wg, spc,
                   errResponse, seen, bodyBuf, outBuf>>

\* http.go 333: the deferred wg.Done()
DispatchDone(b) ==
    /\ dpc[b] = "done"
    /\ wg' = wg - 1
    /\ dpc' = [dpc EXCEPT ![b] = "exit"]
    /\ UNCHANGED <<backoffVars, svcVars, retryVars, req, rp, released, args, posted, hpc, wrote, client, outcome, responses, closed, spc,
                   errResponse, seen, bodyBuf, outBuf>>

\* SupervisorClose closing the channel without waiting for the dispatchers
SupervisorClose_NoWait ==
    /\ spc = "wait"
    /\ closed' = TRUE
    /\ spc' = "put"
    /\ UNCHANGED <<backoffVars, svcVars, retryVars, req, rp, released, args, posted, hpc, wrote, client, dpc, outcome, responses, wg,
                   errResponse, seen, bodyBuf, outBuf>>

\* http.go 350-351: wg.Wait() returns and the supervisor closes the channel
SupervisorClose ==
    /\ spc = "wait"
    /\ wg = 0
    /\ closed' = TRUE
    /\ spc' = "put"
    /\ UNCHANGED <<backoffVars, svcVars, retryVars, req, rp, released, args, posted, hpc, wrote, client, dpc, outcome, responses, wg,
                   errResponse, seen, bodyBuf, outBuf>>

\* http.go 352: putBuf(outBuf)
SupervisorPut ==
    /\ spc = "put"
    /\ outBuf' = "put"
    /\ spc' = "exit"
    /\ UNCHANGED <<backoffVars, svcVars, retryVars, req, rp, released, args, posted, hpc, wrote, client, dpc, outcome, responses, closed, wg,
                   errResponse, seen, bodyBuf>>

\* http.go 358-371: what the loop does with a response it received, held being
\* errResponse: ret says the handler replies and returns, reply is what it
\* writes, held the new errResponse
\* Select replying with the first 5xx it receives
Select_5xxReplies(resp, held) ==
    CASE StatusClass(resp) = 2 ->
           [ret |-> TRUE, reply |-> HeaderOnly(204, {}), held |-> held]
      [] StatusClass(resp) \in {4, 5} ->
           [ret |-> TRUE, reply |-> Write(resp), held |-> held]
      [] OTHER ->
           [ret |-> FALSE, reply |-> NoReply, held |-> resp]

\* Select holding a 2xx until the channel is closed
Select_2xxHeld(resp, held) ==
    CASE StatusClass(resp) = 2 ->
           [ret |-> FALSE, reply |-> NoReply, held |-> held]
      [] StatusClass(resp) = 4 ->
           [ret |-> TRUE, reply |-> Write(resp), held |-> held]
      [] OTHER ->
           [ret |-> FALSE, reply |-> NoReply, held |-> resp]

\* Select holding a 4xx like any other failure, until the channel is closed
Select_4xxHeld(resp, held) ==
    CASE StatusClass(resp) = 2 ->
           [ret |-> TRUE, reply |-> HeaderOnly(204, {}), held |-> held]
      [] OTHER ->
           [ret |-> FALSE, reply |-> NoReply, held |-> resp]

Select(resp, held) ==
    CASE StatusClass(resp) = 2 ->
           [ret |-> TRUE, reply |-> HeaderOnly(204, {}), held |-> held]
      [] StatusClass(resp) = 4 ->
           [ret |-> TRUE, reply |-> Write(resp), held |-> held]
      [] OTHER ->
           [ret |-> FALSE, reply |-> NoReply, held |-> resp]

\* http.go 374-381: the channel is closed and drained without a 2xx or 4xx
\* NoSuccess answering 500 when no backend produced a response
NoSuccess_500(held) ==
    IF held = Nil
    THEN jsonError(500, "unable to write points")
    ELSE Write(held)

NoSuccess(held) ==
    IF held = Nil
    THEN jsonError(503, "unable to write points")
    ELSE Write(held)

\* http.go 357-372: the handler receives the next response from the channel
HandlerReceive ==
    /\ hpc = "collect"
    /\ responses # <<>>
    /\ LET resp == Head(responses)
           sel == Select(resp, errResponse)
       IN /\ responses' = Tail(responses)
          /\ seen' = Append(seen, resp)
          /\ errResponse' = sel.held
          /\ IF sel.ret
             THEN Return(sel.reply)
             ELSE UNCHANGED <<hpc, wrote, client>>
    /\ UNCHANGED <<backoffVars, svcVars, retryVars, req, rp, released, args, posted, dpc, outcome, closed, wg, spc, bodyBuf, outBuf>>

\* http.go 357, 374-381: the range loop ends on the closed, empty channel
HandlerClosed ==
    /\ hpc = "collect"
    /\ responses = <<>>
    /\ closed
    /\ Return(NoSuccess(errResponse))
    /\ UNCHANGED <<backoffVars, svcVars, retryVars, req, rp, released, fanoutVars, bodyBuf, outBuf>>

NextHTTP ==
    \/ Invalid
    \/ GzipError
    \/ ReadError
    \/ ParseError
    \/ FanOut
    \/ \E b \in Backends : DispatchPost(b)
    \/ \E b \in Backends : DispatchPublish(b)
    \/ \E b \in Backends : DispatchDone(b)
    \/ SupervisorClose
    \/ SupervisorPut
    \/ HandlerReceive
    \/ HandlerClosed

SpecHTTP == InitHTTP /\ [][NextHTTP]_vars

\* SpecHTTP with the handler goroutine scheduled whenever it can receive; no
\* dispatcher is required to make progress
SpecHTTPFair == SpecHTTP /\ WF_vars(HandlerReceive)

\* ServeHTTP on one request with any parameters and credentials, at an
\* ingress with or without a default retention policy
InitFanOut ==
    /\ req \in FullRequests
    /\ rp \in RPs
    /\ InitHTTPVars
    /\ InitRetryVars
    /\ InitSvcVars
    /\ InitBackoffVars

SpecFanOut == InitFanOut /\ [][NextHTTP]_vars

(***************************************************************************)
(* Properties of ServeHTTP, checked under SpecHTTP.                        *)
(***************************************************************************)
\* the request was fanned out to the backends
FannedOut == spc # "idle"

\* ServeHTTP has ended
Ended == hpc \in {"returned", "panicked"}

Known(b) == outcome[b] # Pending
Is2xx(rd) == StatusClass(rd) = 2
Is4xx(rd) == StatusClass(rd) = 4
Is5xx(rd) == StatusClass(rd) = 5
Decisive(rd) == Is2xx(rd) \/ Is4xx(rd)
NoContent == HeaderOnly(204, {})

\* the positions in seen of the 2xx and 4xx responses
DecisiveSeen == {i \in 1..Len(seen) : Decisive(seen[i])}

\* C1, as claimed: once the handler has returned and every backend has
\* produced its outcome, (a) a 2xx from any backend means the client got 204,
\* (b) a 4xx from any backend and no 2xx means the client got one of the
\* 4xx responses, (c) the client got a 5xx only if every backend produced a
\* 5xx or an error.
C1_AsClaimed ==
    (hpc = "returned" /\ FannedOut /\ \A b \in Backends : Known(b)) =>
        /\ (\E b \in Backends : Is2xx(outcome[b])) => client = <<NoContent>>
        /\ ((\E b \in Backends : Is4xx(outcome[b])) /\ (\A b \in Backends : ~Is2xx(outcome[b])))
              => \E b \in Backends : Is4xx(outcome[b]) /\ client = <<Write(outcome[b])>>
        /\ client[1].code \div 100 = 5
              => \A b \in Backends : Is5xx(outcome[b]) \/ outcome[b] = PostError

\* C1, amended: the first 2xx or 4xx the handler receives decides the reply,
\* 204 for a 2xx and that 4xx for a 4xx; so a 2xx from some backend and no 4xx
\* from any gives 204, and a 4xx from some backend and no 2xx from any gives
\* one of the 4xx; without a 2xx or 4xx received the handler replies only
\* when every backend has produced its outcome, none of them 2xx or 4xx.
C1_FirstDecisiveWins ==
    (hpc = "returned" /\ FannedOut) =>
        /\ Len(client) = 1
        /\ IF DecisiveSeen # {}
           THEN LET i == CHOOSE j \in DecisiveSeen : \A k \in DecisiveSeen : j <= k
                IN /\ i = Len(seen)
                   /\ Is2xx(seen[i]) => client = <<NoContent>>
                   /\ Is4xx(seen[i]) => client = <<Write(seen[i])>>
           ELSE /\ \A b \in Backends : Known(b) /\ ~Decisive(outcome[b])
                /\ client[1].code = 503 \/ \E b \in Backends : client = <<Write(outcome[b])>>
        /\ ((\E b \in Backends : Is2xx(outcome[b])) /\ (\A b \in Backends : ~Is4xx(outcome[b])))
              => client = <<NoContent>>
        /\ ((\E b \in Backends : Is4xx(outcome[b])) /\ (\A b \in Backends : ~Is2xx(outcome[b])))
              => \E b \in Backends : Is4xx(outcome[b]) /\ client = <<Write(outcome[b])>>
        /\ client[1].code \div 100 = 5
              => \A b \in Backends : Known(b) /\ ~Decisive(outcome[b])

\* C1 witness: a 4xx was received before another backend's 2xx, and the
\* client got the 4xx
C1_Witness ==
    /\ hpc = "returned"
    /\ \E b \in Backends : Is2xx(outcome[b])
    /\ \E b \in Backends : Is4xx(outcome[b]) /\ client = <<Write(outcome[b])>>

\* C2: when the handler has returned, a 2xx from some backend and no 4xx from
\* any means the client got 204, whatever else the other backends produced
\* and in whatever order; and the client never got a 5xx when some backend
\* produced a 2xx.
C2_SuccessHidesFailures ==
    (hpc = "returned" /\ FannedOut) =>
        /\ ((\E b \in Backends : Is2xx(outcome[b])) /\ (\A b \in Backends : ~Is4xx(outcome[b])))
              => client = <<NoContent>>
        /\ (\E b \in Backends : Is2xx(outcome[b])) => client[1].code \div 100 # 5

\* C2 witness: a 5xx was received first, then a 2xx, and the client got 204
C2_Witness ==
    /\ hpc = "returned"
    /\ Len(seen) = 2
    /\ Is5xx(seen[1])
    /\ Is2xx(seen[2])
    /\ client = <<NoContent>>

\* the handler has not gone on collecting after a 2xx or 4xx: it replied and
\* returned in the step that received it
RepliedOnFirstDecisive ==
    /\ hpc = "collect" => DecisiveSeen = {}
    /\ (hpc = "returned" /\ DecisiveSeen # {}) =>
           /\ DecisiveSeen = {Len(seen)}
           /\ Len(wrote) = 1
           /\ wrote[1] = IF Is2xx(seen[Len(seen)]) THEN NoContent
                         ELSE Write(seen[Len(seen)])

\* the channel holds a 2xx or 4xx the handler has not received yet
DecisiveWaiting ==
    /\ hpc = "collect"
    /\ \E i \in 1..Len(responses) : Decisive(responses[i])

\* C3: the handler replies and returns in the step in which it receives the
\* first 2xx or 4xx; and once a 2xx or 4xx is in the channel the handler
\* returns, with the handler alone scheduled: the other backends' posts may
\* never return.
C3_RepliesOnFirstDecisive ==
    /\ []RepliedOnFirstDecisive
    /\ DecisiveWaiting ~> (hpc = "returned")

\* C3 witness: the handler has replied on a 2xx or 4xx while another
\* backend's post has not returned
C3_Witness ==
    /\ hpc = "returned"
    /\ DecisiveSeen # {}
    /\ Len(client) = 1
    /\ \E b \in Backends : dpc[b] = "post"

\* C4: when every backend's outcome is a 5xx or an error (transport error or
\* buffer-full) and the handler has returned, the client got one of the
\* backends' 5xx responses if some backend produced a response, and
\* otherwise 503 with the body {"error":"unable to write points"}.
C4_AllFailed ==
    (hpc = "returned" /\ FannedOut
       /\ \A b \in Backends : Is5xx(outcome[b]) \/ outcome[b] = PostError) =>
        IF \E b \in Backends : Is5xx(outcome[b])
        THEN \E b \in Backends : Is5xx(outcome[b]) /\ client = <<Write(outcome[b])>>
        ELSE client = <<[code |-> 503, body |-> <<"error", "unable to write points">>,
                         hdrs |-> {<<"Content-Type", "application/json">>}]>>

\* C4 witness: every post failed without a response and the client got 503
C4_Witness ==
    /\ hpc = "returned"
    /\ FannedOut
    /\ \A b \in Backends : outcome[b] = PostError
    /\ client[1].code = 503

\* C5, as claimed: when every backend produced a 5xx, the client got the
\* first one the handler received.
C5_FirstReceived5xx ==
    (hpc = "returned" /\ FannedOut /\ NBackends >= 2
       /\ \A b \in Backends : Is5xx(outcome[b])) =>
        client = <<Write(seen[1])>>

\* C6, as claimed: whenever ServeHTTP has ended, on whichever path, the
\* client has received exactly one response.
C6_ExactlyOneResponse == Ended => Len(client) = 1

\* C7: the checks are made in the order ping, path, method, db, and the first
\* that fails decides the response.
C7_ValidationOrder ==
    hpc # "start" =>
        /\ (req.path = "/ping" /\ req.method \in {"GET", "HEAD"}) =>
               /\ client = wrote /\ Len(client) = 1 /\ client[1].code = 204
        /\ (req.path # "/write" /\ ~(req.path = "/ping" /\ req.method \in {"GET", "HEAD"})) =>
               /\ client = wrote /\ Len(client) = 1 /\ client[1].code = 404
        /\ (req.path = "/write" /\ req.method # "POST") =>
               /\ client = wrote /\ Len(client) = 1
               /\ client[1].code = IF req.method = "OPTIONS" THEN 204 ELSE 405
               /\ <<"Allow", "POST">> \in client[1].hdrs
        /\ (req.path = "/write" /\ req.method = "POST" /\ req.db = "") =>
               /\ client = wrote /\ Len(client) = 1 /\ client[1].code = 400

\* C7 witness: POST /ping was answered 404
C7_Witness ==
    /\ hpc = "returned"
    /\ req.path = "/ping"
    /\ req.method = "POST"
    /\ client[1].code = 404

(***************************************************************************)
(* The retry buffer: bufferList.add and pop, retryBuffer.Post and run.     *)
(***************************************************************************)
\* Full letting one byte more than the capacity in
Full_OffByOne(size, n) == size + n > maxSize + 1

\* Full looking at the size before the body is counted in
Full_BeforeBody(size, n) == size > maxSize

\* retry.go 157: the body does not fit in what is left of the capacity
Full(size, n) == size + n > maxSize

\* Skip passing over a batch the body would fill exactly
Skip_FilledExactly(b, n, query) == b.query # query \/ b.size + n >= maxBatch

\* Skip without the comparison of the queries
Skip_AnyQuery(b, n, query) == b.size + n > maxBatch

\* retry.go 169: add walks past batch b for a body of n bytes under query
Skip(b, n, query) == b.query # query \/ b.size + n > maxBatch

\* retry.go 165-171: the position in l where add's walk from position i
\* stops, Len(l) + 1 when it reaches the nil after the tail
RECURSIVE Walk(_, _, _, _)
Walk(l, i, n, query) ==
    IF i > Len(l) THEN i
    ELSE IF Skip(l[i], n, query) THEN Walk(l, i + 1, n, query)
    ELSE i

\* retry.go 112-119: a batch of the one body p
newBatch(p, n, query) == [id |-> p, query |-> query, bufs |-> <<p>>, size |-> n]

\* Place linking a new batch in front of the head instead of at the tail
Place_AtHead(l, p, n, query) ==
    LET i == Walk(l, 1, n, query)
    IN IF i > Len(l)
       THEN <<newBatch(p, n, query)>> \o l
       ELSE [l EXCEPT ![i] = [@ EXCEPT !.size = @ + n, !.bufs = Append(@, p)]]

\* retry.go 173-181: the list after add has placed body p at the position
\* where its walk stopped
Place(l, p, n, query) ==
    LET i == Walk(l, 1, n, query)
    IN IF i > Len(l)
       THEN Append(l, newBatch(p, n, query))
       ELSE [l EXCEPT ![i] = [@ EXCEPT !.size = @ + n, !.bufs = Append(@, p)]]

\* retry.go 72-77: the bytes of run's buf after the Reset and the Write of
\* every element of bufs; byte k of body p is <<p, k>>
RECURSIVE bufBytes(_)
bufBytes(bufs) ==
    IF bufs = <<>> THEN <<>>
    ELSE [k \in 1..sub[Head(bufs)].len |-> <<Head(bufs), k>>] \o bufBytes(Tail(bufs))

\* BackoffTo multiplying without the clamp to m
BackoffTo_Unclamped(i, m) == IF i >= m THEN i ELSE i * retryMultiplier

\* retry.go 89-94: the interval after a failed attempt, under max-interval m
BackoffTo(i, m) ==
    IF i # m
    THEN IF i * retryMultiplier > m THEN m ELSE i * retryMultiplier
    ELSE i

\* retry.go 89-94: the interval after a failed attempt
Backoff(i) == BackoffTo(i, maxInterval)

\* a goroutine has panicked, which ends the process
Crashed == \E p \in Submitters : ppc[p] = "panicked"

\* PostCall starting the direct post whatever buffering it loaded
PostCall_AlwaysDirect(p, n, query) ==
    /\ ~Crashed
    /\ ppc[p] = "idle"
    /\ \A o \in Submitters : o < p => ppc[o] # "idle"
    /\ sub' = [sub EXCEPT ![p] = [len |-> n, query |-> query]]
    /\ loaded' = [loaded EXCEPT ![p] = buffering]
    /\ ppc' = [ppc EXCEPT ![p] = "direct"]
    /\ UNCHANGED <<backoffVars, svcVars, httpVars, direct, buffering, list, lsize, added, curHead, handle,
                   result, rpc, batch, interval, bresp, wgc, nfail>>

\* retry.go 49-50: a caller enters Post with a body of n bytes and a query,
\* and loads buffering; when it is clear the direct post starts.  Callers are
\* numbered in the order they enter.
PostCall(p, n, query) ==
    /\ ~Crashed
    /\ ppc[p] = "idle"
    /\ \A o \in Submitters : o < p => ppc[o] # "idle"
    /\ sub' = [sub EXCEPT ![p] = [len |-> n, query |-> query]]
    /\ loaded' = [loaded EXCEPT ![p] = buffering]
    /\ ppc' = [ppc EXCEPT ![p] = IF buffering = 0 THEN "direct" ELSE "add"]
    /\ UNCHANGED <<backoffVars, svcVars, httpVars, direct, buffering, list, lsize, added, curHead, handle,
                   result, rpc, batch, interval, bresp, wgc, nfail>>

\* retry.go 51-55: the direct post returns
PostDirect(p) ==
    /\ ~Crashed
    /\ ppc[p] = "direct"
    /\ \E status \in RetryStatuses :
          /\ direct' = [direct EXCEPT ![p] = status]
          /\ IF Accepted(status)
             THEN /\ result' = [result EXCEPT ![p] = Response(status)]
                  /\ ppc' = [ppc EXCEPT ![p] = "done"]
             ELSE /\ ppc' = [ppc EXCEPT ![p] = "store"]
                  /\ UNCHANGED result
    /\ UNCHANGED <<backoffVars, svcVars, httpVars, buffering, list, lsize, sub, added, curHead, handle, rpc,
                   batch, interval, bresp, wgc, nfail, loaded>>

\* retry.go 56: the store of buffering after a failed direct post
PostStore(p) ==
    /\ ~Crashed
    /\ ppc[p] = "store"
    /\ buffering' = 1
    /\ ppc' = [ppc EXCEPT ![p] = "add"]
    /\ UNCHANGED <<backoffVars, svcVars, httpVars, direct, list, lsize, sub, added, curHead, handle, result, rpc, batch,
                   interval, bresp, wgc, nfail, loaded>>

\* retry.go 154-183: bufferList.add of body p, n bytes under query, from Lock
\* to Unlock: buffer-full when the body does not fit, else the body is placed
\* and the batch it is in remembered
add(p, n, query) ==
    LET i == Walk(list, 1, n, query)
    IN IF Full(lsize, n)
       THEN /\ result' = [result EXCEPT ![p] = ErrBufferFull]
            /\ UNCHANGED <<list, lsize, added, curHead, wgc>>
       ELSE /\ lsize' = lsize + n
            /\ list' = Place(list, p, n, query)
            /\ added' = [added EXCEPT ![p] = list'[i].id]
            /\ curHead' = [curHead EXCEPT ![p] = (i = 1)]
            /\ wgc' = IF i > Len(list) THEN [wgc EXCEPT ![p] = 1] ELSE wgc
            /\ UNCHANGED result

\* pop without the subtraction of the batch's size from l.size
pop_KeepsSize ==
    /\ lsize # 0
    /\ list # <<>>
    /\ batch' = Head(list)
    /\ list' = Tail(list)
    /\ lsize' = lsize

\* retry.go 138-152: bufferList.pop, which waits while l.size is 0
pop ==
    /\ lsize # 0
    /\ list # <<>>
    /\ batch' = Head(list)
    /\ list' = Tail(list)
    /\ lsize' = lsize - Head(list).size

\* retry.go 60-63: Post calls add; buffer-full is returned at once
PostAdd(p) ==
    /\ ~Crashed
    /\ ppc[p] = "add"
    /\ add(p, sub[p].len, sub[p].query)
    /\ ppc' = [ppc EXCEPT ![p] = IF Full(lsize, sub[p].len) THEN "done" ELSE "ret"]
    /\ UNCHANGED <<backoffVars, svcVars, httpVars, direct, buffering, sub, handle, rpc, batch, interval, bresp, nfail, loaded>>

\* retry.go 184, 65: add returns *cur, read after Unlock.  When cur is
\* &l.head, the read races with pop's write of l.head and gives the batch
\* that is the head now, or nil; batch.wg.Wait() on nil panics.  When cur is
\* a batch's next field it still points at the batch the body is in.
PostAddReturn(p) ==
    /\ ~Crashed
    /\ ppc[p] = "ret"
    /\ LET b == IF curHead[p]
                THEN IF list = <<>> THEN 0 ELSE Head(list).id
                ELSE added[p]
       IN /\ handle' = [handle EXCEPT ![p] = b]
          /\ ppc' = [ppc EXCEPT ![p] = IF b = 0 THEN "panicked" ELSE "wait"]
    /\ UNCHANGED <<backoffVars, svcVars, httpVars, direct, buffering, list, lsize, sub, added, curHead, result, rpc,
                   batch, interval, bresp, wgc, nfail, loaded>>

\* PostWait returning batch.resp without waiting for the wait group
PostWait_NoWait(p) ==
    /\ ~Crashed
    /\ ppc[p] = "wait"
    /\ result' = [result EXCEPT ![p] = bresp[handle[p]]]
    /\ ppc' = [ppc EXCEPT ![p] = "done"]
    /\ UNCHANGED <<backoffVars, svcVars, httpVars, direct, buffering, list, lsize, sub, added, curHead, handle, rpc,
                   batch, interval, bresp, wgc, nfail, loaded>>

\* retry.go 65-66: batch.wg.Wait() returns and Post returns batch.resp
PostWait(p) ==
    /\ ~Crashed
    /\ ppc[p] = "wait"
    /\ wgc[handle[p]] = 0
    /\ result' = [result EXCEPT ![p] = bresp[handle[p]]]
    /\ ppc' = [ppc EXCEPT ![p] = "done"]
    /\ UNCHANGED <<backoffVars, svcVars, httpVars, direct, buffering, list, lsize, sub, added, curHead, handle, rpc,
                   batch, interval, bresp, wgc, nfail, loaded>>

\* retry.go 72-79: run pops the head batch, concatenates its bodies and
\* starts from the initial interval
DrainPop ==
    /\ ~Crashed
    /\ rpc = "pop"
    /\ pop
    /\ interval' = retryInitial
    /\ nfail' = 0
    /\ rpc' = "post"
    /\ UNCHANGED <<backoffVars, svcVars, httpVars, direct, buffering, sub, ppc, added, curHead, handle, result,
                   bresp, wgc, loaded>>

\* DrainPost going on to release the batch without storing batch.resp
DrainPost_NoStore ==
    /\ ~Crashed
    /\ rpc = "post"
    /\ \E status \in RetryStatuses :
          IF Accepted(status)
          THEN /\ rpc' = "clear"
               /\ UNCHANGED <<bresp, interval, nfail>>
          ELSE /\ interval' = Backoff(interval)
               /\ nfail' = IF nfail < MaxFails THEN nfail + 1 ELSE nfail
               /\ rpc' = "sleep"
               /\ UNCHANGED bresp
    /\ UNCHANGED <<backoffVars, svcVars, httpVars, direct, buffering, list, lsize, sub, ppc, added, curHead, handle,
                   result, batch, wgc, loaded>>

\* retry.go 81-94: the drainer's post returns
DrainPost ==
    /\ ~Crashed
    /\ rpc = "post"
    /\ \E status \in RetryStatuses :
          IF Accepted(status)
          THEN /\ bresp' = [bresp EXCEPT ![batch.id] = Response(status)]
               /\ rpc' = "clear"
               /\ UNCHANGED <<interval, nfail>>
          ELSE /\ interval' = Backoff(interval)
               /\ nfail' = IF nfail < MaxFails THEN nfail + 1 ELSE nfail
               /\ rpc' = "sleep"
               /\ UNCHANGED bresp
    /\ UNCHANGED <<backoffVars, svcVars, httpVars, direct, buffering, list, lsize, sub, ppc, added, curHead, handle,
                   result, batch, wgc, loaded>>

\* retry.go 96: time.Sleep(interval) returns
DrainWake ==
    /\ ~Crashed
    /\ rpc = "sleep"
    /\ rpc' = "post"
    /\ UNCHANGED <<backoffVars, svcVars, httpVars, direct, buffering, list, lsize, sub, ppc, added, curHead, handle,
                   result, batch, interval, bresp, wgc, nfail, loaded>>

\* retry.go 84: the store that clears buffering
DrainClear ==
    /\ ~Crashed
    /\ rpc = "clear"
    /\ buffering' = 0
    /\ rpc' = "release"
    /\ UNCHANGED <<backoffVars, svcVars, httpVars, direct, list, lsize, sub, ppc, added, curHead, handle, result, batch,
                   interval, bresp, wgc, nfail, loaded>>

\* retry.go 85: batch.wg.Done()
DrainRelease ==
    /\ ~Crashed
    /\ rpc = "release"
    /\ wgc' = [wgc EXCEPT ![batch.id] = @ - 1]
    /\ rpc' = "pop"
    /\ UNCHANGED <<backoffVars, svcVars, httpVars, direct, buffering, list, lsize, sub, ppc, added, curHead, handle,
                   result, batch, interval, bresp, nfail, loaded>>

InitRetry ==
    /\ req = [path |-> "/write", method |-> "POST", db |-> "mydb", enc |-> "",
              body |-> "plain_points", rest |-> <<>>, auth |-> ""]
    /\ rp = ""
    /\ InitHTTPVars
    /\ InitRetryVars
    /\ InitSvcVars
    /\ InitBackoffVars

NextRetry ==
    \/ \E p \in Submitters, n \in Lens, query \in Queries : PostCall(p, n, query)
    \/ \E p \in Submitters : PostDirect(p)
    \/ \E p \in Submitters : PostStore(p)
    \/ \E p \in Submitters : PostAdd(p)
    \/ \E p \in Submitters : PostAddReturn(p)
    \/ \E p \in Submitters : PostWait(p)
    \/ DrainPop
    \/ DrainPost
    \/ DrainWake
    \/ DrainClear
    \/ DrainRelease

SpecRetry == InitRetry /\ [][NextRetry]_vars

(***************************************************************************)
(* The retry buffer as the poster of an ingress's backend: every submitter *)
(* is the dispatcher of a request of its own, whose body is the request's  *)
(* outBuf, and the request's supervisor puts outBuf back to the pool.      *)
(***************************************************************************)
\* http.go 333-352: the dispatcher's post has returned, its deferred
\* wg.Done() has run, the supervisor's wg.Wait() returns and it calls
\* putBuf(outBuf)
SupervisorPutFor(p) ==
    /\ ~Crashed
    /\ ppc[p] = "done"
    /\ ~released[p]
    /\ released' = [released EXCEPT ![p] = TRUE]
    /\ UNCHANGED <<backoffVars, svcVars, retryVars, req, hpc, wrote, client, dpc,
                   outcome, responses, closed, wg, spc, errResponse, seen, bodyBuf,
                   outBuf, rp, args, posted>>

NextRelease ==
    \/ NextRetry
    \/ \E p \in Submitters : SupervisorPutFor(p)

SpecRelease == InitRetry /\ [][NextRelease]_vars

(***************************************************************************)
(* The bufferList alone: add and pop called in any order, as the mutex     *)
(* serializes them, by callers that do nothing else.                       *)
(***************************************************************************)
\* a call of l.add(buf, query) with the next body, of n bytes
ListAdd(p, n, query) ==
    /\ sub[p].query = ""
    /\ \A o \in Bodies : o < p => sub[o].query # ""
    /\ sub' = [sub EXCEPT ![p] = [len |-> n, query |-> query]]
    /\ add(p, n, query)
    /\ UNCHANGED <<backoffVars, svcVars, httpVars, direct, buffering, ppc, handle, rpc, batch, interval, bresp, nfail, loaded>>

\* a call of l.pop()
ListPop ==
    /\ pop
    /\ UNCHANGED <<backoffVars, svcVars, httpVars, direct, buffering, sub, ppc, added, curHead, handle, result,
                   rpc, interval, bresp, wgc, nfail, loaded>>

NextList ==
    \/ \E p \in Bodies, n \in Lens, query \in Queries : ListAdd(p, n, query)
    \/ ListPop

SpecList == InitRetry /\ [][NextList]_vars

(***************************************************************************)
(* The drainer's loop alone, retry.go 71-98, on a queue that holds a batch *)
(* whenever the drainer pops, against a backend that accepts or fails any  *)
(* attempt, for every max-interval of MaxIntervals.                        *)
(***************************************************************************)
InitBackoff ==
    /\ req = [path |-> "/write", method |-> "POST", db |-> "mydb", enc |-> "",
              body |-> "plain_points", rest |-> <<>>, auth |-> ""]
    /\ rp = ""
    /\ InitHTTPVars
    /\ InitRetryVars
    /\ InitSvcVars
    /\ max \in MaxIntervals
    /\ pfail = 0

\* retry.go 72-79: run pops the next batch and starts from the initial
\* interval
RunPop ==
    /\ rpc = "pop"
    /\ batch' = newBatch((batch.id % NBodies) + 1, 1, "db=foo")
    /\ interval' = retryInitial
    /\ pfail' = nfail
    /\ nfail' = 0
    /\ rpc' = "post"
    /\ UNCHANGED <<svcVars, httpVars, max, direct, buffering, list, lsize, sub, ppc, added,
                   curHead, handle, result, bresp, wgc, loaded>>

\* retry.go 81-87: the post is accepted and run goes for the next batch
RunPostAccepted ==
    /\ rpc = "post"
    /\ rpc' = "pop"
    /\ UNCHANGED <<svcVars, httpVars, backoffVars, direct, buffering, list, lsize, sub, ppc,
                   added, curHead, handle, result, batch, interval, bresp, wgc,
                   nfail, loaded>>

\* retry.go 81-96: the post fails, run computes the delay and sleeps
RunPostFails ==
    /\ rpc = "post"
    /\ interval' = BackoffTo(interval, max)
    /\ nfail' = IF nfail < MaxFails THEN nfail + 1 ELSE nfail
    /\ rpc' = "sleep"
    /\ UNCHANGED <<svcVars, httpVars, backoffVars, direct, buffering, list, lsize, sub, ppc,
                   added, curHead, handle, result, batch, bresp, wgc, loaded>>

\* retry.go 96: time.Sleep(interval) returns
RunWake ==
    /\ rpc = "sleep"
    /\ rpc' = "post"
    /\ UNCHANGED <<svcVars, httpVars, backoffVars, direct, buffering, list, lsize, sub, ppc,
                   added, curHead, handle, result, batch, interval, bresp, wgc,
                   nfail, loaded>>

NextBackoff ==
    \/ RunPop
    \/ RunPostAccepted
    \/ RunPostFails
    \/ RunWake

SpecBackoff == InitBackoff /\ [][NextBackoff]_vars

(***************************************************************************)
(* The service: New (service construction), Service.Run, Service.Stop and  *)
(* the Run and Stop of the ingresses.                                      *)
(***************************************************************************)
\* NewHTTP and newHTTPBackend, http.go 104-172: the ingress, or the error of
\* an output's timeout that does not parse
NewHTTP(cfg) ==
    IF cfg.Timeout = "bad"
    THEN [err |-> "error parsing HTTP timeout", h |-> <<>>]
    ELSE [err |-> "",
          h |-> [kind |-> "http", name |-> cfg.Name, addr |-> cfg.Addr,
                 cert |-> cfg.SSLCombinedPem,
                 schema |-> IF cfg.SSLCombinedPem # "" THEN "https" ELSE "http"]]

\* NewUDP: the ingress of a UDP configuration
NewUDP(cfg) ==
    [err |-> "",
     h |-> [kind |-> "udp", name |-> cfg.Name, addr |-> "", cert |-> "",
            schema |-> "udp"]]

\* HTTP.Name, http.go 174-179
Name(h) == IF h.name = "" THEN h.schema \o "://" \o h.addr ELSE h.name

\* UDP.Name
UDPName(u) == u.name

\* Relay.Name() of an ingress of either kind
RelayName(r) == IF r.kind = "http" THEN Name(r) ELSE UDPName(r)

\* Duplicate looking only at the ingresses of the same kind
Duplicate_SameKind(relays, r) ==
    \E x \in relays : x.kind = r.kind /\ RelayName(x) = RelayName(r)

\* s.relays[r.Name()] != nil
Duplicate(relays, r) == \E x \in relays : RelayName(x) = RelayName(r)

\* s.relays[r.Name()] = r
Put(relays, r) == {x \in relays : RelayName(x) # RelayName(r)} \cup {r}

\* the two loops of New over what NewHTTP and NewUDP make, from entry i on
RECURSIVE NewFrom(_, _, _)
NewFrom(made, i, relays) ==
    IF i > Len(made) THEN [err |-> "", relays |-> relays]
    ELSE IF made[i].err # "" THEN [err |-> made[i].err, relays |-> {}]
    ELSE IF Duplicate(relays, made[i].h)
         THEN [err |-> "duplicate relay", relays |-> {}]
    ELSE NewFrom(made, i + 1, Put(relays, made[i].h))

\* New, part_001 20-52
New(cfg) ==
    NewFrom([i \in 1..Len(cfg.HTTPRelays) |-> NewHTTP(cfg.HTTPRelays[i])] \o
            [i \in 1..Len(cfg.UDPRelays) |-> NewUDP(cfg.UDPRelays[i])],
            1, {})

\* a configuration is handed to New
InitNew ==
    /\ req = [path |-> "/write", method |-> "POST", db |-> "mydb", enc |-> "",
              body |-> "plain_points", rest |-> <<>>, auth |-> ""]
    /\ rp = ""
    /\ InitHTTPVars
    /\ InitRetryVars
    /\ config \in Configs
    /\ service = NoService
    /\ InitRelays({})
    /\ InitBackoffVars

\* New returns
CallNew ==
    /\ service = NoService
    /\ service' = New(config)
    /\ gpc' = [r \in service'.relays |-> "none"]
    /\ irun' = [r \in service'.relays |-> "idle"]
    /\ iret' = [r \in service'.relays |-> "none"]
    /\ closing' = [r \in service'.relays |-> 0]
    /\ lis' = [r \in service'.relays |-> "nil"]
    /\ spos' = [r \in service'.relays |-> 0]
    /\ stopServing' = [r \in service'.relays |-> FALSE]
    /\ UNCHANGED <<backoffVars, httpVars, retryVars, config, runpc, swg, stoppc>>

SpecNew == InitNew /\ [][CallNew]_vars

\* the configurations of the services that are run: the i-th HTTP ingress
\* binds the i-th address, and the names are left to Name()
ServedConfigs ==
    {c \in Configs :
        /\ New(c).err = ""
        /\ \A i \in 1..Len(c.HTTPRelays) :
               /\ c.HTTPRelays[i].Name = ""
               /\ c.HTTPRelays[i].Addr = ":" \o ToString(i)
        /\ \A i \in 1..Len(c.UDPRelays) : c.UDPRelays[i].Name = "u"}

\* a service New has built, nothing started
InitService ==
    /\ req = [path |-> "/write", method |-> "POST", db |-> "mydb", enc |-> "",
              body |-> "plain_points", rest |-> <<>>, auth |-> ""]
    /\ rp = ""
    /\ InitHTTPVars
    /\ InitRetryVars
    /\ config \in ServedConfigs
    /\ service = New(config)
    /\ InitRelays(service.relays)
    /\ InitBackoffVars

\* every ingress some configuration makes
Relays ==
    {NewHTTP(c).h : c \in {x \in HTTPConfigs : NewHTTP(x).err = ""}} \cup
    {NewUDP(c).h : c \in UDPConfigs}

\* a goroutine has panicked, which ends the process
Dead == stoppc = "panicked"

\* Service.Run, part_001 55-67: wg.Add(len(s.relays)) and one goroutine per
\* ingress
ServiceRun ==
    /\ ~Dead
    /\ runpc = "idle"
    /\ swg' = Cardinality(service.relays)
    /\ gpc' = [r \in service.relays |-> "run"]
    /\ runpc' = "wait"
    /\ UNCHANGED <<backoffVars, httpVars, retryVars, config, service, irun, iret, closing,
                   lis, stoppc, spos, stopServing>>

\* HTTP.Run, http.go 183-205: net.Listen or the loading of the certificate
\* fails and Run returns the error, or h.l is set and http.Serve starts
HTTPRun(r) ==
    /\ ~Dead
    /\ r \in service.relays
    /\ r.kind = "http"
    /\ gpc[r] = "run"
    /\ irun[r] = "idle"
    /\ \/ /\ irun' = [irun EXCEPT ![r] = "returned"]
          /\ iret' = [iret EXCEPT ![r] = "err"]
          /\ UNCHANGED lis
       \/ /\ lis' = [lis EXCEPT ![r] = "open"]
          /\ irun' = [irun EXCEPT ![r] = "serve"]
          /\ UNCHANGED iret
    /\ UNCHANGED <<backoffVars, httpVars, retryVars, config, service, runpc, swg, gpc,
                   closing, stoppc, spos, stopServing>>

\* http.go 205: http.Serve returns its error, because the listener was
\* closed or because accepting failed
HTTPServeReturns(r) ==
    /\ ~Dead
    /\ r \in service.relays
    /\ r.kind = "http"
    /\ irun[r] = "serve"
    /\ irun' = [irun EXCEPT ![r] = "load"]
    /\ UNCHANGED <<backoffVars, httpVars, retryVars, config, service, runpc, swg, gpc, iret,
                   closing, lis, stoppc, spos, stopServing>>

\* http.go 207-210: Run loads closing and returns nil or Serve's error
HTTPRunReturn(r) ==
    /\ ~Dead
    /\ r \in service.relays
    /\ r.kind = "http"
    /\ irun[r] = "load"
    /\ iret' = [iret EXCEPT ![r] = IF closing[r] # 0 THEN "nil" ELSE "err"]
    /\ irun' = [irun EXCEPT ![r] = "returned"]
    /\ UNCHANGED <<backoffVars, httpVars, retryVars, config, service, runpc, swg, gpc,
                   closing, lis, stoppc, spos, stopServing>>

\* the Run of a UDP ingress starts serving, or returns an error
UDPRun(r) ==
    /\ ~Dead
    /\ r \in service.relays
    /\ r.kind = "udp"
    /\ gpc[r] = "run"
    /\ irun[r] = "idle"
    /\ \/ /\ irun' = [irun EXCEPT ![r] = "returned"]
          /\ iret' = [iret EXCEPT ![r] = "err"]
       \/ /\ irun' = [irun EXCEPT ![r] = "serve"]
          /\ UNCHANGED iret
    /\ UNCHANGED <<backoffVars, httpVars, retryVars, config, service, runpc, swg, gpc,
                   closing, lis, stoppc, spos, stopServing>>

\* the Run of a UDP ingress returns, with or without an error
UDPRunReturn(r) ==
    /\ ~Dead
    /\ r \in service.relays
    /\ r.kind = "udp"
    /\ irun[r] = "serve"
    /\ \E e \in {"nil", "err"} : iret' = [iret EXCEPT ![r] = e]
    /\ irun' = [irun EXCEPT ![r] = "returned"]
    /\ UNCHANGED <<backoffVars, httpVars, retryVars, config, service, runpc, swg, gpc,
                   closing, lis, stoppc, spos, stopServing>>

\* GoDone calling wg.Done() when the goroutine starts
GoDone_AtStart(r) ==
    /\ ~Dead
    /\ r \in service.relays
    /\ gpc[r] = "run"
    /\ swg' = swg - 1
    /\ gpc' = [gpc EXCEPT ![r] = "exit"]
    /\ UNCHANGED <<backoffVars, httpVars, retryVars, config, service, runpc, irun, iret,
                   closing, lis, stoppc, spos, stopServing>>

\* part_001 60-66: relay.Run() has returned (an error is logged) and the
\* deferred wg.Done() runs
GoDone(r) ==
    /\ ~Dead
    /\ r \in service.relays
    /\ gpc[r] = "run"
    /\ irun[r] = "returned"
    /\ swg' = swg - 1
    /\ gpc' = [gpc EXCEPT ![r] = "exit"]
    /\ UNCHANGED <<backoffVars, httpVars, retryVars, config, service, runpc, irun, iret,
                   closing, lis, stoppc, spos, stopServing>>

\* part_001 69: wg.Wait() returns and so does Service.Run
ServiceRunReturn ==
    /\ ~Dead
    /\ runpc = "wait"
    /\ swg = 0
    /\ runpc' = "returned"
    /\ UNCHANGED <<backoffVars, httpVars, retryVars, config, service, swg, gpc, irun, iret,
                   closing, lis, stoppc, spos, stopServing>>

\* Service.Stop is called, part_001 72
ServiceStop ==
    /\ ~Dead
    /\ stoppc = "idle"
    /\ stoppc' = "loop"
    /\ UNCHANGED <<backoffVars, httpVars, retryVars, config, service, runpc, swg, gpc, irun,
                   iret, closing, lis, spos, stopServing>>

\* the loop of Service.Stop is at ingress r: no other Stop is under way, and
\* r's is not finished
Stopping(r) ==
    /\ stoppc = "loop"
    /\ spos[r] < 2
    /\ \A x \in service.relays : x # r => spos[x] \in {0, 2}

\* StopStep closing the listener before it stores the flag
StopStep_CloseFirst(k) == IF k = 1 THEN "close" ELSE "store"

\* HTTP.Stop, http.go 213-216: its k-th statement
StopStep(k) == IF k = 1 THEN "store" ELSE "close"

\* HTTP.Stop executes its next statement: atomic.StoreInt64(&h.closing, 1),
\* or h.l.Close(), which panics on the nil h.l of a Run that has not listened
HTTPStop(r) ==
    /\ ~Dead
    /\ r \in service.relays
    /\ r.kind = "http"
    /\ Stopping(r)
    /\ IF StopStep(spos[r] + 1) = "store"
       THEN /\ closing' = [closing EXCEPT ![r] = 1]
            /\ UNCHANGED <<lis, stoppc>>
       ELSE /\ IF lis[r] = "nil"
               THEN stoppc' = "panicked" /\ UNCHANGED lis
               ELSE lis' = [lis EXCEPT ![r] = "closed"] /\ UNCHANGED stoppc
            /\ UNCHANGED closing
    /\ spos' = [spos EXCEPT ![r] = @ + 1]
    /\ stopServing' = [stopServing EXCEPT
                          ![r] = IF spos[r] = 0 THEN irun[r] = "serve" ELSE @]
    /\ UNCHANGED <<backoffVars, httpVars, retryVars, config, service, runpc, swg, gpc, irun,
                   iret>>

\* the Stop of a UDP ingress
UDPStop(r) ==
    /\ ~Dead
    /\ r \in service.relays
    /\ r.kind = "udp"
    /\ Stopping(r)
    /\ spos' = [spos EXCEPT ![r] = 2]
    /\ UNCHANGED <<backoffVars, httpVars, retryVars, config, service, runpc, swg, gpc, irun,
                   iret, closing, lis, stoppc, stopServing>>

\* part_001 73-75: the loop is through and Service.Stop returns
ServiceStopReturn ==
    /\ ~Dead
    /\ stoppc = "loop"
    /\ \A r \in service.relays : spos[r] = 2
    /\ stoppc' = "returned"
    /\ UNCHANGED <<backoffVars, httpVars, retryVars, config, service, runpc, swg, gpc, irun,
                   iret, closing, lis, spos, stopServing>>

NextService ==
    \/ ServiceRun
    \/ \E r \in Relays : HTTPRun(r)
    \/ \E r \in Relays : HTTPServeReturns(r)
    \/ \E r \in Relays : HTTPRunReturn(r)
    \/ \E r \in Relays : UDPRun(r)
    \/ \E r \in Relays : UDPRunReturn(r)
    \/ \E r \in Relays : GoDone(r)
    \/ ServiceRunReturn
    \/ ServiceStop
    \/ \E r \in Relays : HTTPStop(r)
    \/ \E r \in Relays : UDPStop(r)
    \/ ServiceStopReturn

SpecService == InitService /\ [][NextService]_vars

(***************************************************************************)
(* Properties of the bufferList, checked under SpecList.                   *)
(***************************************************************************)
RECURSIVE SumSizes(_)
\* the sum of the size fields of the batches of l
SumSizes(l) == IF l = <<>> THEN 0 ELSE Head(l).size + SumSizes(Tail(l))

RECURSIVE SumLens(_)
\* the bytes of the bodies bufs names
SumLens(bufs) == IF bufs = <<>> THEN 0 ELSE sub[Head(bufs)].len + SumLens(Tail(bufs))

RECURSIVE SumBytes(_)
\* the bytes of the bodies held in the batches of l
SumBytes(l) == IF l = <<>> THEN 0 ELSE SumLens(Head(l).bufs) + SumBytes(Tail(l))

\* C8: in every state reached by adds and pops in any order, the sizes of the
\* queued batches, and the bytes of the bodies they hold, sum to at most
\* the capacity.
C8_WithinCapacity ==
    /\ SumSizes(list) <= maxSize
    /\ SumBytes(list) <= maxSize

\* C8 witness: after a pop, two or more batches fill the capacity exactly
C8_Witness ==
    /\ batch # NoBatch
    /\ Len(list) >= 2
    /\ SumSizes(list) = maxSize

\* C9, as claimed: no queued batch is larger than max-batch-size.
C9_BatchWithinMax == \A i \in 1..Len(list) : list[i].size <= maxBatch

\* every body of batch b was added under b's query
SameQuery(b) == \A k \in 1..Len(b.bufs) : sub[b.bufs[k]].query = b.query

\* C10: every body in a queued batch, and in the batch the drainer has popped
\* and posts under the batch's query, was added under that query.
C10_OneQueryPerBatch ==
    /\ \A i \in 1..Len(list) : SameQuery(list[i])
    /\ SameQuery(batch)

\* C10 witness: the popped batch holds two bodies, and a batch of the other
\* query is queued
C10_Witness ==
    /\ Len(batch.bufs) = 2
    /\ \E i \in 1..Len(list) : list[i].query # batch.query

(***************************************************************************)
(* The retry buffer with its submitters and its drainer                    *)
(***************************************************************************)
\* C11, as claimed: whenever the queue holds a batch the buffering flag is
\* set, also after the drainer cleared the flag for a delivered batch.
C11_QueuedImpliesBuffering == list # <<>> => buffering = 1

\* the bodies of the batches of l, in queue order
RECURSIVE Queued(_)
Queued(l) == IF l = <<>> THEN <<>> ELSE Head(l).bufs \o Queued(Tail(l))

\* the bodies of bufs are in the order add saw them
InAddOrder(bufs) == \A i, j \in 1..Len(bufs) : i < j => bufs[i] < bufs[j]

\* C12, as claimed: bodies are posted in the order add saw them, whatever
\* their queries and sizes: the bodies of one batch are in add order, and no
\* body still queued was added before a body of the batch the drainer popped.
C12_PostedInAddOrder ==
    /\ \A i \in 1..Len(list) : InAddOrder(list[i].bufs)
    /\ InAddOrder(batch.bufs \o Queued(list))

\* the bytes of the bodies the submitters of S handed to Post
RECURSIVE TotalLen(_)
TotalLen(S) ==
    IF S = {} THEN 0
    ELSE LET p == CHOOSE x \in S : TRUE IN sub[p].len + TotalLen(S \ {p})

\* every submitter's body went into the buffer, all under one query, and
\* together they fit one batch and the capacity
OneBatchWorth ==
    /\ \A p \in Submitters : added[p] # 0
    /\ \A p, q \in Submitters : sub[p].query = sub[q].query
    /\ TotalLen(Submitters) <= maxBatch
    /\ TotalLen(Submitters) <= maxSize

\* no POST of the drainer has been answered with a non-5xx response yet
BackendDown == \A b \in Bodies : bresp[b] = NilResp

\* C13, as claimed: writes of one query that together fit one batch,
\* submitted while the backend is down, are all accepted into one batch, the
\* body of a single POST, and once the backend has answered that POST every
\* submitter that returns, returns the response of that POST.
C13_BufferedRecovery ==
    OneBatchWorth =>
        /\ BackendDown /\ (\A p \in Submitters : ppc[p] \in {"ret", "wait"}) =>
               \A p, q \in Submitters : added[p] = added[q]
        /\ \A p \in Submitters :
               ppc[p] = "done" => result[p] = bresp[added[p]]

\* the drainer holds a popped batch the backend has not accepted yet
Retrying == rpc \in {"post", "sleep"}

\* the bytes of point data accepted by add and not delivered yet: the queued
\* batches and the batch the drainer is retrying
Undelivered == SumBytes(list) + (IF Retrying THEN SumLens(batch.bufs) ELSE 0)

\* body p was accepted by add and its batch has no response yet
Held(p) == added[p] # 0 /\ bresp[added[p]] = NilResp

\* C14, as claimed: the buffer never holds more than the capacity in
\* undelivered bytes, whatever the drainer has done: two bodies whose sizes
\* sum to more than the capacity are never both accepted and undelivered.
C14_BufferFull ==
    /\ Undelivered <= maxSize
    /\ \A p, q \in Submitters :
           p # q /\ Held(p) /\ Held(q) => sub[p].len + sub[q].len <= maxSize

\* add has just run for body p: it recorded p's length and query
AddRan(p) == sub[p].query = "" /\ sub'[p].query # ""

\* C15: an add whose body would take the size over the capacity, be it by
\* one byte, returns buffer-full and changes nothing in the queue: the
\* batches with their bodies and sizes, the total size and the wait groups
\* stay as they were, and the body is in no batch.
C15_RejectedAddChangesNothing ==
    [][\A p \in Bodies :
           AddRan(p) /\ lsize + sub'[p].len > maxSize =>
               /\ result'[p] = ErrBufferFull
               /\ list' = list
               /\ lsize' = lsize
               /\ wgc' = wgc
               /\ added'[p] = 0]_vars

\* C15 witness: a body one byte too large for what is left was rejected,
\* with two or more batches queued
C15_Witness ==
    \E p \in Bodies :
        /\ result[p] = ErrBufferFull
        /\ lsize + sub[p].len = maxSize + 1
        /\ Len(list) >= 2
        /\ SumSizes(list) = lsize

\* submitter p is inside Post with its body accepted by add, not yet released
Blocked(p) == ppc[p] \in {"ret", "wait"} /\ added[p] # 0

\* C16, as claimed: an accepted body of any length, the empty one included,
\* is eventually posted and its submitter released.  Stated on finite runs:
\* while a submitter is blocked on its batch and the process is alive, some
\* step of the drainer or of a submitter is possible; otherwise the
\* submitter stays blocked for ever, however fair the scheduling and
\* whatever the backend answers.
C16_BlockedCanProgress ==
    (~Crashed /\ \E p \in Submitters : Blocked(p)) => ENABLED NextRetry

\* 2 to the power k
RECURSIVE Pow2(_)
Pow2(k) == IF k = 0 THEN 1 ELSE 2 * Pow2(k - 1)

\* the smaller of a and b
Min(a, b) == IF a < b THEN a ELSE b

\* C17, as claimed: the delay the drainer sleeps after the k-th failed
\* attempt of a batch in a row is min(500 ms * 2^(k-1), max-interval), so the
\* first delay is 500 ms.
C17_DelayAfterKthFailure ==
    (rpc = "sleep" /\ nfail >= 1 /\ nfail < MaxFails) =>
        interval = Min(retryInitial * Pow2(nfail - 1), maxInterval)

\* the backend answered a POST of batch b with a non-5xx response
Delivered(b) ==
    /\ bresp[b.id] # NilResp
    /\ bresp[b.id].err = ""
    /\ bresp[b.id].StatusCode \div 100 \in {1, 2, 3, 4}

\* C18: retries are serial.  The one drainer posts only the batch it holds,
\* which has no response yet; after a POST it either sleeps and posts the
\* same batch again or has stored a non-5xx response for it; and it takes
\* the next batch from the queue only when the batch it held is delivered.
C18_SerialRetries ==
    /\ [](rpc \in {"post", "sleep"} => batch # NoBatch /\ bresp[batch.id] = NilResp)
    /\ [][/\ batch' # batch =>
                 /\ rpc = "pop" /\ rpc' = "post"
                 /\ batch = NoBatch \/ Delivered(batch)
                 /\ list # <<>> /\ batch' = Head(list)
          /\ rpc = "post" /\ rpc' # "post" =>
                 \/ rpc' = "sleep" /\ bresp' = bresp
                 \/ rpc' = "clear" /\ Delivered(batch)'
          /\ rpc = "sleep" /\ rpc' # "sleep" => rpc' = "post"]_vars

\* C18 witness: with one batch delivered, the drainer sleeps after the second
\* failed POST of the next one
C18_Witness ==
    /\ rpc = "sleep"
    /\ nfail = 2
    /\ \E b \in Bodies : b # batch.id /\ bresp[b] # NilResp

\* C19: a Post that loaded the flag as set never posts directly: it goes to
\* add, and when it returns it returns buffer-full or the response of a
\* batch its body was put in.  A Post starts a direct POST only on entry,
\* having loaded the flag as clear, and then always does; when that POST is
\* answered with a non-5xx response Post returns it and the queue, its
\* size, the wait groups and the flag are as they were; otherwise Post goes
\* on to set the flag.
C19_FlagDecidesDirectPost ==
    /\ [](\A p \in Submitters :
              loaded[p] = 1 =>
                  /\ ppc[p] \in {"add", "ret", "wait", "done", "panicked"}
                  /\ ppc[p] = "done" =>
                         result[p] = ErrBufferFull \/ added[p] # 0)
    /\ [][\A p \in Submitters :
              /\ ppc'[p] = "direct" /\ ppc[p] # "direct" =>
                     ppc[p] = "idle" /\ loaded'[p] = 0
              /\ loaded[p] = -1 /\ loaded'[p] = 0 => ppc'[p] = "direct"
              /\ ppc[p] = "direct" /\ ppc'[p] # "direct" =>
                     \/ ppc'[p] = "store" /\ result'[p] = NoResult
                     \/ /\ ppc'[p] = "done"
                        /\ result'[p].err = ""
                        /\ result'[p].StatusCode \div 100 \in {1, 2, 3, 4}
                        /\ added'[p] = 0
                        /\ UNCHANGED <<list, lsize, wgc, buffering>>]_vars

\* C19 witness: a submitter that loaded the flag as set has returned the
\* response the drainer got for its batch, and the submitter whose direct
\* POST failed has returned too
C19_Witness ==
    \E p, q \in Submitters :
        /\ loaded[p] = 1 /\ ppc[p] = "done" /\ added[p] # 0
        /\ result[p].StatusCode = 400
        /\ loaded[q] = 0 /\ ppc[q] = "done" /\ added[q] # 0

\* the response stored for batch id b is a 4xx
Got4xx(b) == bresp[b].err = "" /\ bresp[b].StatusCode \div 100 = 4

\* C20, as claimed: a 4xx answer to the drainer's POST ends the batch: the
\* drainer does not post or sleep on a batch whose stored response is a 4xx,
\* and every submitter whose body is in that batch and that has returned
\* from Post returned that 4xx.
C20_4xxReleasesItsSubmitters ==
    /\ (batch # NoBatch /\ Got4xx(batch.id)) => rpc \notin {"post", "sleep"}
    /\ \A p \in Submitters :
           (added[p] # 0 /\ Got4xx(added[p]) /\ ppc[p] = "done") =>
               result[p] = bresp[added[p]]

(***************************************************************************)
(* Further properties of ServeHTTP, checked under SpecHTTP.                *)
(***************************************************************************)
\* the handler has returned after forwarding the last response it received,
\* a 4xx or a 5xx
Forwarded ==
    /\ hpc = "returned"
    /\ seen # <<>>
    /\ StatusClass(seen[Len(seen)]) \in {4, 5}

\* C21, as claimed: a forwarded 4xx or 5xx reaches the client with the
\* status, the body, the Content-Type and the Content-Encoding of the
\* backend's response.
C21_ForwardedVerbatim ==
    Forwarded =>
        LET resp == seen[Len(seen)]
        IN /\ Len(client) = 1
           /\ client[1].code = resp.StatusCode
           /\ client[1].body = resp.Body
           /\ Get(client[1].hdrs, "Content-Type") = Get(resp.sent, "Content-Type")
           /\ Get(client[1].hdrs, "Content-Encoding") = Get(resp.sent, "Content-Encoding")

(***************************************************************************)
(* Properties of the service: New under SpecNew, Run and Stop under        *)
(* SpecService.                                                            *)
(***************************************************************************)
\* what NewHTTP and NewUDP make of the entries of cfg, in New's order
Made(cfg) ==
    [i \in 1..Len(cfg.HTTPRelays) |-> NewHTTP(cfg.HTTPRelays[i])] \o
    [i \in 1..Len(cfg.UDPRelays) |-> NewUDP(cfg.UDPRelays[i])]

\* two ingresses of cfg have the same Name()
SameName(cfg) ==
    \E i, j \in 1..Len(Made(cfg)) :
        /\ i < j
        /\ Made(cfg)[i].err = "" /\ Made(cfg)[j].err = ""
        /\ RelayName(Made(cfg)[i].h) = RelayName(Made(cfg)[j].h)

\* two HTTP entries of cfg have no name and the same bind address
UnnamedSameAddr(cfg) ==
    \E i, j \in 1..Len(cfg.HTTPRelays) :
        /\ i < j
        /\ cfg.HTTPRelays[i].Name = "" /\ cfg.HTTPRelays[j].Name = ""
        /\ cfg.HTTPRelays[i].Addr = cfg.HTTPRelays[j].Addr

\* the same, with both entries serving http or both https
UnnamedSameAddrAndScheme(cfg) ==
    \E i, j \in 1..Len(cfg.HTTPRelays) :
        /\ i < j
        /\ cfg.HTTPRelays[i].Name = "" /\ cfg.HTTPRelays[j].Name = ""
        /\ cfg.HTTPRelays[i].Addr = cfg.HTTPRelays[j].Addr
        /\ (cfg.HTTPRelays[i].SSLCombinedPem = "") =
               (cfg.HTTPRelays[j].SSLCombinedPem = "")

\* New returned an error and no service
Refused == service.err # "" /\ service.relays = {}

\* New returned a service that holds one ingress per entry of the
\* configuration, each of them what its constructor made
OnePerEntry ==
    /\ Cardinality(service.relays) = Len(Made(config))
    /\ service.relays = {Made(config)[i].h : i \in 1..Len(Made(config))}

Executing(r) == gpc[r] # "none" /\ irun[r] # "returned"

\* C23: Service.Run starts the Run of every ingress; it has not returned
\* while the Run of some ingress is executing; and when every Run has
\* returned, with an error or without, and its goroutine is done,
\* Service.Run can return.
C23_RunWaitsForAll ==
    /\ runpc # "idle" => \A r \in service.relays : gpc[r] # "none"
    /\ runpc = "returned" =>
           \A r \in service.relays : ~Executing(r) /\ iret[r] \in {"nil", "err"}
    /\ (runpc = "wait" /\ ~Dead /\ \A r \in service.relays : gpc[r] = "exit") =>
           ENABLED ServiceRunReturn

\* C23 witness: Service.Run has returned from three ingresses, one of which
\* returned an error and another nil
C23_Witness ==
    /\ runpc = "returned"
    /\ Cardinality(service.relays) = 3
    /\ \E r, x \in service.relays : iret[r] = "err" /\ iret[x] = "nil"

\* the HTTP ingresses of the service
HTTPRelays == {r \in service.relays : r.kind = "http"}

\* C24: Stop stores the closing flag before it closes the listener, so when
\* Stop began while Run was serving, Run's load after Serve has returned
\* finds the flag set and Run returns nil, not Serve's error.
C24_RunReturnsNilAfterStop ==
    \A r \in HTTPRelays :
        /\ lis[r] = "closed" => closing[r] = 1
        /\ stopServing[r] /\ irun[r] = "load" => closing[r] = 1
        /\ stopServing[r] /\ irun[r] = "returned" => iret[r] = "nil"

\* C24 witness: Stop closed the listener of a serving ingress, whose Run then
\* returned nil, while another ingress's Run returned an error
C24_Witness ==
    \E r, x \in HTTPRelays :
        /\ stopServing[r] /\ lis[r] = "closed"
        /\ irun[r] = "returned" /\ iret[r] = "nil"
        /\ iret[x] = "err"

(***************************************************************************)
(* Further properties of the bufferList, checked under SpecList, and of    *)
(* the retry buffer, checked under SpecRetry.                              *)
(***************************************************************************)
\* batch b has the query of the body and room for its n bytes
Fits(b, n, query) == b.query = query /\ b.size + n <= maxBatch

\* the queue after body p of n bytes was coalesced by the rule: appended to
\* the first batch from the head that fits, or else a new batch at the tail
Coalesced(l, p, n, query) ==
    LET F == {i \in 1..Len(l) : Fits(l[i], n, query)}
    IN IF F = {}
       THEN Append(l, [id |-> p, query |-> query, bufs |-> <<p>>, size |-> n])
       ELSE LET k == CHOOSE i \in F : \A j \in F : i <= j
            IN [l EXCEPT ![k] = [@ EXCEPT !.bufs = Append(@, p),
                                          !.size = @ + n]]

\* adds of one byte each under db=foo, db=bar, db=foo were accepted, there
\* was no other add and nothing was popped
FooBarFoo ==
    /\ \A p \in 1..3 : sub[p].len = 1 /\ added[p] # 0
    /\ \A p \in Bodies \ (1..3) : sub[p].query = ""
    /\ sub[1].query = "db=foo" /\ sub[2].query = "db=bar"
    /\ sub[3].query = "db=foo"
    /\ batch = NoBatch

\* C25: every add that is not rejected appends its body to the first batch
\* from the head with the body's query and room for it within
\* max-batch-size, and makes a new tail batch only when there is none; so
\* adds under db=foo, db=bar, db=foo leave the batches foo, of two bodies,
\* then bar.
C25_CoalescingRule ==
    /\ [][\A p \in Bodies :
              AddRan(p) /\ lsize + sub'[p].len <= maxSize =>
                  list' = Coalesced(list, p, sub'[p].len, sub'[p].query)]_vars
    /\ [](FooBarFoo =>
              list = << [id |-> 1, query |-> "db=foo", bufs |-> <<1, 3>>, size |-> 2],
                        [id |-> 2, query |-> "db=bar", bufs |-> <<2>>, size |-> 1] >>)

\* C25 witness: the adds under db=foo, db=bar, db=foo have left two batches
C25_Witness == FooBarFoo /\ Len(list) = 2 /\ Len(list[1].bufs) = 2

\* the bytes of the bodies of S from body p on, each body whole, in the order
\* the bodies were added
RECURSIVE BytesInAddOrder(_, _)
BytesInAddOrder(S, p) ==
    IF p > NBodies THEN <<>>
    ELSE (IF p \in S THEN [k \in 1..sub[p].len |-> <<p, k>>] ELSE <<>>)
             \o BytesInAddOrder(S, p + 1)

\* the batch the drainer holds followed by the queued batches
Chain == <<batch>> \o list

\* C26: batches are drained first in, first out and unpermuted.  The batch
\* the drainer popped was created before every queued batch and the queue is
\* in creation order; a pop takes the head and nothing else, an add leaves
\* the batches before the tail where they are and links a new batch only
\* behind them, and every pop takes a batch created after the one before; the
\* body the drainer posts for its batch is the bytes of the batch's bodies,
\* each whole, in the order add appended them.
C26_DrainedFIFOUnpermuted ==
    /\ [](\A i, j \in 1..Len(Chain) : i < j => Chain[i].id < Chain[j].id)
    /\ [](bufBytes(batch.bufs)
              = BytesInAddOrder({batch.bufs[i] : i \in 1..Len(batch.bufs)}, 1))
    /\ [][batch' # batch =>
              /\ list # <<>> /\ batch' = Head(list) /\ list' = Tail(list)
              /\ batch'.id > batch.id]_vars
    /\ [][\A p \in Bodies : AddRan(p) =>
              /\ Len(list') \in {Len(list), Len(list) + 1}
              /\ \A i \in 1..Len(list) :
                     /\ list'[i].id = list[i].id
                     /\ list'[i].bufs \in {list[i].bufs, Append(list[i].bufs, p)}
              /\ Len(list') > Len(list) => list'[Len(list')].bufs = <<p>>]_vars

\* C26 witness: the drainer holds a batch of two bodies of one byte each that
\* it popped ahead of a batch still queued
C26_Witness ==
    /\ Len(batch.bufs) = 2
    /\ sub[batch.bufs[1]].len = 1 /\ sub[batch.bufs[2]].len = 1
    /\ Len(list) = 1
    /\ batch.id < list[1].id

(***************************************************************************)
(* Properties of the drainer's backoff, checked under SpecBackoff.         *)
(***************************************************************************)
\* C27: every delay the drainer sleeps is at most max-interval, whether
\* max-interval is above, at or below the initial 500 ms; the delays of one
\* batch never decrease from one failed attempt to the next; and run starts
\* every batch it pops from the initial interval, however many attempts of
\* the batch before had failed.
C27_DelaysBoundedMonotoneReset ==
    /\ [](rpc = "sleep" => interval <= max)
    /\ [][rpc = "post" /\ rpc' = "sleep" /\ nfail >= 1 => interval' >= interval]_vars
    /\ [][batch' # batch => interval' = retryInitial]_vars
    /\ [](rpc = "sleep" /\ nfail = 1 => interval = BackoffTo(retryInitial, max))

\* C27 witness: with a max-interval below the initial interval, the drainer
\* sleeps after the second failed attempt of a batch it popped after a batch
\* that had failed three times
C27_Witness ==
    /\ max = 300
    /\ rpc = "sleep"
    /\ nfail = 2
    /\ pfail = MaxFails

(***************************************************************************)
(* Further properties of the retry buffer, checked under SpecRetry.        *)
(***************************************************************************)
\* status is a transport error or a 5xx
Failed(status) == status = 0 \/ status \div 100 = 5

\* C28: the buffering flag changes in two places only.  It goes from clear
\* to set only by the store of a Post whose direct post ended in a transport
\* error or a 5xx; it goes from set to clear only by the drainer's store,
\* made right after its batch got a non-5xx response and before the batch's
\* wait group is released.  A step that changes the queue (add, pop), that
\* returns buffer-full, that ends a failed attempt of the drainer or that
\* ends a successful direct post leaves the flag as it was.
C28_FlagChangesInTwoPlaces ==
    /\ [][buffering = 0 /\ buffering' = 1 =>
              \E p \in Submitters :
                  /\ ppc[p] = "store" /\ ppc'[p] = "add"
                  /\ Failed(direct[p])]_vars
    /\ [][buffering = 1 /\ buffering' = 0 =>
              /\ rpc = "clear" /\ rpc' = "release"
              /\ bresp[batch.id].err = ""
              /\ bresp[batch.id].StatusCode \div 100 \in {1, 2, 3, 4}
              /\ wgc' = wgc /\ batch' = batch]_vars
    /\ [](rpc = "clear" => bresp[batch.id] # NilResp)
    /\ [][\/ list' # list
          \/ lsize' # lsize
          \/ \E p \in Submitters : result'[p] = ErrBufferFull /\ result[p] # ErrBufferFull
          \/ rpc = "post" /\ rpc' = "sleep"
          \/ \E p \in Submitters : ppc[p] = "direct" /\ ppc'[p] = "done"
          => buffering' = buffering]_vars

\* C28 witness: the flag was set by a Post whose direct post got a 5xx and
\* has just been cleared by the drainer, which has not released the batch yet
C28_Witness ==
    /\ buffering = 0
    /\ rpc = "release"
    /\ \E p \in Submitters :
           /\ direct[p] = 500
           /\ added[p] = batch.id
           /\ bresp[batch.id].StatusCode = 204

(***************************************************************************)
(* Properties of the fan-out, checked under SpecFanOut.                    *)
(***************************************************************************)
\* the request passes the four checks, the decompression, the read of its
\* body and the parse of its points
Passes(r) ==
    /\ Validate(r) = NoReply
    /\ ~(r.enc = "gzip" /\ GzipNewReaderFails(r))
    /\ ~ReadFails(r)
    /\ ~ParseFails(r)

\* the canonical query of request r at an ingress with default retention
\* policy hrp: db, then precision, then rp, the request's own rp before the
\* default
CanonicalQuery(r, hrp) ==
    << <<"db", r.db>> >>
    \o (IF r.rest = <<>> THEN <<>> ELSE << <<"precision", "s">> >>)
    \o (IF r.rest # <<>> THEN << <<"rp", "week">> >>
        ELSE IF hrp # "" THEN << <<"rp", hrp>> >>
        ELSE <<>>)

\* the one call each backend's post gets for request r
TheCall(r, hrp) ==
    [buf |-> <<"points", IF r.rest = <<>> THEN "" ELSE "s">>,
     query |-> CanonicalQuery(r, hrp),
     auth |-> r.auth]

\* C29: fan-out completeness.  Once the handler is past the parse of a
\* request that passes, a dispatcher is running for every backend; each
\* backend's post is called at most once, has been called exactly once when
\* its dispatcher is past the call, and was called with the normalized body,
\* the canonical query and the Authorization value of the request, the same
\* for every backend; a dispatcher that has not made its call can make it
\* whatever the other backends answered and whether or not the handler has
\* replied; and for a request that does not pass no post is ever called.
C29_FanOutComplete ==
    /\ Passes(req) /\ hpc # "start" => \A b \in Backends : dpc[b] # "idle"
    /\ \A b \in Backends :
           /\ Len(posted[b]) <= 1
           /\ dpc[b] \in {"publish", "done", "exit"} =>
                  posted[b] = <<TheCall(req, rp)>>
           /\ dpc[b] \in {"idle", "post"} => posted[b] = <<>>
           /\ dpc[b] = "post" => ENABLED DispatchPost(b)
    /\ ~Passes(req) => \A b \in Backends : dpc[b] = "idle" /\ posted[b] = <<>>

\* C29 witness: a request with its own rp and precision and with
\* credentials, at an ingress with a default retention policy; the handler
\* has replied 204 on backend 1's answer alone, and backend 2's post, which
\* failed, has been called as well
C29_Witness ==
    /\ req.rest # <<>> /\ req.auth # "" /\ rp # ""
    /\ hpc = "returned"
    /\ Len(seen) = 1 /\ seen[1].from = 1
    /\ outcome[2] = PostError
    /\ \A b \in Backends : Len(posted[b]) = 1

(***************************************************************************)
(* Properties of the results channel, checked under SpecHTTP.              *)
(***************************************************************************)
\* the dispatchers whose post has not returned or whose outcome is not
\* published yet
Unpublished == {b \in Backends : dpc[b] \in {"post", "publish"}}

\* C30: results channel discipline.  The channel never holds more outcomes
\* than there are backends, and there is room for every outcome still to
\* come, so a dispatcher that has an outcome can always publish it, and one
\* that has published can always finish, also after the handler has
\* returned; the channel is closed once, by the supervisor, when every
\* dispatcher has exited, so no dispatcher has an outcome to publish while
\* the channel is closed.
C30_ChannelDiscipline ==
    /\ [](Len(responses) + Cardinality(Unpublished) <= NBackends)
    /\ [](\A b \in Backends :
              /\ dpc[b] = "publish" => ~closed /\ ENABLED DispatchPublish(b)
              /\ dpc[b] = "done" => ENABLED DispatchDone(b))
    /\ [](closed => \A b \in Backends : dpc[b] = "exit")
    /\ [][closed' # closed =>
              ~closed /\ spc = "wait" /\ spc' = "put" /\ wg = 0]_vars
    /\ [][spc' = "wait" => spc \in {"idle", "wait"}]_vars

\* C30 witness: the handler returned on the first response it received, the
\* other backend's response was published after that without being received,
\* and the channel is closed with that response in it
C30_Witness ==
    /\ hpc = "returned"
    /\ Len(seen) = 1
    /\ Len(responses) = NBackends - 1
    /\ closed

(***************************************************************************)
(* Properties of the outgoing buffer of a request whose backend has a      *)
(* retry buffer, checked under SpecRelease.                                *)
(***************************************************************************)
\* body p is one of the bodies of batch b
InBatch(p, b) == \E k \in 1..Len(b.bufs) : b.bufs[k] = p

\* C31: the outgoing buffer of a request goes back to the pool only after
\* the request's submit has returned, a submit waiting in the retry buffer
\* included; so no queued batch and no batch the drainer is posting or
\* retrying has a body whose buffer was released.
C31_ReleasedAfterSubmits ==
    /\ [][\A p \in Submitters :
              released'[p] /\ ~released[p] => ppc[p] = "done"]_vars
    /\ [](\A p \in Submitters :
              ppc[p] \in {"direct", "store", "add", "ret", "wait"} => ~released[p])
    /\ [](\A p \in Submitters :
              released[p] =>
                  /\ \A i \in 1..Len(list) : ~InBatch(p, list[i])
                  /\ Retrying => ~InBatch(p, batch))

\* C31 witness: the buffer of a submitter whose body went through the queue
\* was released after the drainer delivered its batch, while another
\* submitter's body is queued and its buffer is not released
C31_Witness ==
    \E p, q \in Submitters :
        /\ released[p] /\ added[p] # 0 /\ bresp[added[p]] # NilResp
        /\ ppc[q] = "wait" /\ ~released[q]
        /\ \E i \in 1..Len(list) : InBatch(q, list[i])

(***************************************************************************)
(* Properties of the buffer pool, checked under SpecHTTP.                  *)
(***************************************************************************)
\* C32, as claimed: on every path of the handler each buffer taken from the
\* pool is put back exactly once and is not used afterwards: when the
\* handler has ended the input buffer is not left taken; the outgoing buffer
\* is taken only by a request that is fanned out, is put back when the
\* supervisor has ended, and no dispatcher is still to use it once it is put
\* back.
C32_BuffersReturnedOnce ==
    /\ Ended => bodyBuf # "taken"
    /\ ~FannedOut => outBuf = "unused"
    /\ spc = "exit" => outBuf = "put"
    /\ outBuf = "put" => \A b \in Backends : dpc[b] = "exit"

(***************************************************************************)
(* Properties of the batches after pop, checked under SpecRetry.           *)
(***************************************************************************)
\* C33, as claimed: the batch the drainer popped changes no more, whatever
\* is added afterwards; every submitter that waits on a batch or was
\* released by one has its body in that batch, and a submitter that has
\* returned from the queue returned the response of the POST its body was
\* in.
C33_FrozenFromPop ==
    /\ [][batch' # batch => rpc = "pop" /\ list # <<>> /\ batch' = Head(list)]_vars
    /\ [](\A p \in Submitters : handle[p] # 0 => handle[p] = added[p])
    /\ [](\A p \in Submitters :
              ppc[p] = "done" /\ added[p] # 0 =>
                  result[p] # NilResp /\ result[p] = bresp[added[p]])

\* r is a response record whose status is not 5xx
Non5xx(r) == r.err = "" /\ r.StatusCode \div 100 \in {1, 2, 3, 4}

\* C34: a Post that has returned returned buffer-full or a response record,
\* never nil, whose status is not 5xx; the drainer releases a batch's wait
\* group only with the batch's response stored, and the response of a batch
\* is never a 5xx, so no submitter released by a batch reads nil or hands a
\* 5xx on.
C34_PostReturnsFullOrNon5xx ==
    /\ [](\A p \in Submitters :
              ppc[p] = "done" => result[p] = ErrBufferFull \/ Non5xx(result[p]))
    /\ [](\A b \in Bodies : bresp[b] # NilResp => Non5xx(bresp[b]))
    /\ [][\A b \in Bodies : wgc'[b] < wgc[b] => bresp[b] # NilResp]_vars
    /\ [](\A p \in Submitters :
              ppc[p] = "done" /\ handle[p] # 0 => result[p] = bresp[handle[p]])

\* C34 witness: a submitter whose direct post got a 5xx was released by its
\* batch and returned the batch's 4xx, and another returned buffer-full
C34_Witness ==
    \E p, q \in Submitters :
        /\ ppc[p] = "done" /\ direct[p] = 500 /\ handle[p] # 0
        /\ result[p].StatusCode = 400
        /\ ppc[q] = "done" /\ result[q] = ErrBufferFull

(***************************************************************************)
(* Properties of Stop against Run, checked under SpecService.              *)
(***************************************************************************)
\* C35, as claimed: in every interleaving of Service.Run and Service.Stop
\* the listener of an HTTP ingress is set when its Stop reads it: once
\* Service.Run has been called, a Stop that has stored the flag and is about
\* to close h.l finds it installed by Run, also when the ingress's Run has
\* only just been started or has returned from a failed Listen.
C35_StopFindsListener ==
    runpc # "idle" =>
        \A r \in HTTPRelays : spos[r] = 1 /\ gpc[r] # "none" => lis[r] # "nil"

(***************************************************************************)
(* The size counter of the bufferList, checked under SpecList, where every *)
(* state is one with the mutex free.                                       *)
(***************************************************************************)
\* C36: whenever the mutex is free, l.size is the sum of the sizes of the
\* batches linked from head; so the counter is zero when the list is empty,
\* and a pop, which goes on only when the counter is not zero, finds a head
\* batch to take.
C36_SizeIsSumOfBatches ==
    /\ [](lsize = SumSizes(list))
    /\ [](lsize # 0 => list # <<>>)
    /\ [][batch' # batch => lsize # 0 /\ list # <<>> /\ batch' = Head(list)]_vars

\* C36 witness: after a pop the list holds a batch of an empty body alone,
\* and the counter is zero with the list not empty
C36_Witness ==
    /\ batch.id # 0 /\ batch.size > 0
    /\ list # <<>>
    /\ lsize = 0

====
